---- MODULE Spec2Model ----
(***************************************************************************)
(* State-machine model of the aidaily-digest repository.                   *)
(*                                                                         *)
(* Each subsystem has its own specification; while one runs, the others    *)
(* stay as constructed:                                                    *)
(*   SpecTwitter  the synchronous Twitter poster script                    *)
(*                (scripts/src/twitter_poster.py, twitter_client.py)       *)
(*   SpecDigest   the Telegram bot's digest generation and delivery        *)
(*                (tgbot/digest_generator.py, database.py, bot.py)         *)
(*   SpecWalk     the digest's selection of posts by category              *)
(*                (tgbot/digest_generator.py, database.py)                 *)
(*   SpecChat     the Telegram bot's interactive handlers                  *)
(*                (tgbot/chat_handler.py, handlers/messages.py,            *)
(*                 handlers/commands.py)                                   *)
(*   SpecFetch    the Reddit fetcher (scripts/src/reddit_fetcher.py);      *)
(*                SpecFetchRuns is the same with weak fairness             *)
(*   SpecProcess  the content processor (scripts/src/content_processor.py); *)
(*                SpecProcessRuns is the same with weak fairness, in       *)
(*                SpecOverlap a second run works on the same table, and in *)
(*                SpecProcessRepeats the script is run again and again     *)
(*   SpecReplies  the fetcher's walk over the comments of one submission   *)
(*   SpecFilter   the fetcher's comment filter on its own                  *)
(*   SpecConfig   the three loaders of the configuration                   *)
(*   SpecTable    the table reddit_posts between the fetcher, the          *)
(*                processor, the Twitter poster and the digest query       *)
(* External services (database, Twitter, Telegram, LLM) answer             *)
(* nondeterministically: every call either succeeds or fails the way the   *)
(* code's own except-branches expect.                                      *)
(***************************************************************************)
EXTENDS Integers, Sequences, FiniteSets, TLC

VARIABLES
    \* ---- shared database table reddit_posts and the wall clock (hours)
    reddit_posts, now,
    \* ---- Twitter poster process
    tw_pc, cycle, posts_to_tweet, thread, tweet_ids, previous_tweet_id,
    attempts, results, timeline, next_tweet_id,
    \* ---- Twitter poster: whether the query of the running cycle raised
    query_failed,
    \* ---- Telegram bot: configuration, tables daily_digests and digest_posts
    admin_chat_ids, today, daily_digests, digest_posts,
    \* ---- Telegram bot: the tasks of the event loop and their locals
    bot_pc, runs, cmd_user, message, digest_id, successful_sends, sends,
    replies, delivered, next_message_id,
    \* ---- digest selection on its own: the query answer, the overall cap,
    \* ---- and the result of the walk over the categories
    walk_posts, walk_max, walk_pc, walk_result,
    \* ---- Telegram bot: the interactive handlers
    user_contexts, handled, last_handled,
    \* ---- Telegram bot: the messages of the last chat-completion request
    \* ---- and the user they were built for
    chat_request,
    \* ---- Reddit fetcher: the run's position and locals, what it returns,
    \* ---- what it did (calls, pauses, rate-limit signals, stores), and the
    \* ---- rows it wrote to reddit_posts and reddit_comments
    fetch_pc, fetch_i, fetch_attempt, fetch_yielded, stored_count, fetch_results,
    fetch_log, fetch_pauses, fetch_signals, posts_table, comments_table, post_stores,
    \* ---- Reddit fetcher: FetchConfig.fetch_comments
    fetch_comments,
    \* ---- content processor: the reddit_posts rows it reads and updates, the
    \* ---- run's position and locals, and the post it handled last with what
    \* ---- the URL fetch, the LLM and the database did
    post_rows, proc_pc, proc_runs, proc_offset, proc_batch, proc_k, proc_last,
    proc_failed,
    \* ---- content processor: whether URL content is fetched, the counters of
    \* ---- the batch and of the run, the posts the run has sent to the LLM,
    \* ---- and the posts another run of the processor has selected
    url_fetcher, batch_stats, total_stats, llm_sent, other_batch,
    \* ---- content processor: ProcessingConfig.batch_size
    batch_size,
    \* ---- the table reddit_posts with the columns of every writer, the wall
    \* ---- clock (hours) and the last write to the table
    post_table, wall_clock, table_op,
    \* ---- comments of one submission: the fetch configuration, the comment
    \* ---- forest Reddit answers with, the calls that fail, and the rows of
    \* ---- reddit_comments after fetch_submission_comments
    max_comment_depth, max_comments_per_post, comment_forest, failing_stores,
    failing_replies, comment_rows, replies_pc,
    \* ---- the comment filter on its own: the comment it is asked about and
    \* ---- its answer
    filter_comment, filter_pc, filter_answer,
    \* ---- configuration loaders: the variables of the environment that are
    \* ---- set to a non-empty value, the loader that ran and how it ended
    environ, config_pc, config_outcome

tw_vars == <<reddit_posts, now, tw_pc, cycle, posts_to_tweet, thread, tweet_ids,
             previous_tweet_id, attempts, results, timeline, next_tweet_id,
             query_failed>>

bot_vars == <<admin_chat_ids, today, daily_digests, digest_posts, bot_pc, runs,
              cmd_user, message, digest_id, successful_sends, sends, replies,
              delivered, next_message_id>>

walk_vars == <<walk_posts, walk_max, walk_pc, walk_result>>

chat_vars == <<user_contexts, handled, last_handled, chat_request>>

fetch_vars == <<fetch_pc, fetch_i, fetch_attempt, fetch_yielded, stored_count,
                fetch_results, fetch_log, fetch_pauses, fetch_signals, posts_table,
                comments_table, post_stores, fetch_comments>>

proc_vars == <<post_rows, proc_pc, proc_runs, proc_offset, proc_batch, proc_k,
               proc_last, proc_failed, url_fetcher, batch_stats, total_stats,
               llm_sent, other_batch, batch_size>>

replies_vars == <<max_comment_depth, max_comments_per_post, comment_forest,
                  failing_stores, failing_replies, comment_rows, replies_pc>>

filter_vars == <<filter_comment, filter_pc, filter_answer>>

config_vars == <<environ, config_pc, config_outcome>>

table_vars == <<post_table, wall_clock, table_op>>

vars == <<tw_vars, bot_vars, walk_vars, chat_vars, fetch_vars, proc_vars,
          replies_vars, filter_vars, config_vars, table_vars>>

\* what the steps of one subsystem leave alone
outside_tw_vars == <<bot_vars, walk_vars, chat_vars, fetch_vars, proc_vars,
                     replies_vars, filter_vars, config_vars,
        table_vars>>

outside_bot_vars == <<tw_vars, walk_vars, chat_vars, fetch_vars, proc_vars,
                      replies_vars, filter_vars, config_vars,
        table_vars>>

outside_walk_vars == <<tw_vars, bot_vars, chat_vars, fetch_vars, proc_vars,
                       replies_vars, filter_vars, config_vars,
        table_vars>>

outside_chat_vars == <<tw_vars, bot_vars, walk_vars, fetch_vars, proc_vars,
                       replies_vars, filter_vars, config_vars,
        table_vars>>

outside_fetch_vars == <<tw_vars, bot_vars, walk_vars, chat_vars, proc_vars,
                        replies_vars, filter_vars, config_vars,
        table_vars>>

outside_replies_vars == <<tw_vars, bot_vars, walk_vars, chat_vars, fetch_vars,
                          proc_vars, filter_vars, config_vars,
        table_vars>>

outside_filter_vars == <<tw_vars, bot_vars, walk_vars, chat_vars, fetch_vars,
                         proc_vars, replies_vars, config_vars,
        table_vars>>

outside_config_vars == <<tw_vars, bot_vars, walk_vars, chat_vars, fetch_vars,
                         proc_vars, replies_vars, filter_vars,
        table_vars>>

outside_proc_vars == <<tw_vars, bot_vars, walk_vars, chat_vars, fetch_vars,
                       replies_vars, filter_vars, config_vars,
        table_vars>>

outside_table_vars == <<tw_vars, bot_vars, walk_vars, chat_vars, fetch_vars,
                        proc_vars, replies_vars, filter_vars, config_vars>>

(***************************************************************************)
(* Bounds of the model                                                     *)
(***************************************************************************)
NumPosts == 2          \* rows of reddit_posts
MaxLLMTweets == 2      \* lines the LLM returns for a thread (prompt: 1-2)
MaxCycles == 3         \* runs of run_tweet_posting_cycle
MaxTicks == 1          \* hours the clock advances during a behaviour
NumChats == 2          \* chat ids that can be configured as admin chats
MaxRuns == 2           \* job firings and /test_digest commands in a behaviour
MaxDays == 1           \* midnights that pass during a behaviour
MaxWalkPosts == 6      \* posts in the answer of the digest's posts query
MaxOverallCap == 6     \* largest MAX_POSTS_PER_DIGEST tried
NumChatUsers == 2      \* users who write to the bot
MaxReplyLen == 2       \* characters of a model reply
MaxHandled == 2        \* updates the interactive handlers handle
NumSubreddits == 2     \* configured target subreddits
MaxListing == 2        \* limit_per_subreddit: submissions a listing yields
NumProcPosts == 2      \* rows of reddit_posts the processor sees
BatchSize == 2         \* the largest PROCESSING_BATCH_SIZE
RunLimit == 4          \* limit of process_all_unprocessed
MaxProcRuns == 2       \* runs of the content processor

\* the deepest nesting of replies in a fetched comment forest
MaxNesting == 11

\* the largest max_comment_depth a fetch is configured with
MaxCommentDepth == 12

\* the largest max_comments_per_post a fetch is configured with
MaxCommentsPerPost == 2

(***************************************************************************)
(* Program constants                                                       *)
(***************************************************************************)
min_score == 250       \* get_posts_to_tweet default
hours_back == 48       \* get_posts_to_tweet default
Now0 == 50             \* hour at which the behaviour starts (> hours_back)

None == "None"         \* Python None / SQL NULL

PostIds == 1..NumPosts

\* Rows a post can have when the poster starts: twitter_sent is FALSE (the
\* column default); score, age and summary cover both sides of every filter.
PostRows ==
    { [score |-> 300, created_utc |-> Now0, summary |-> "summary",
       twitter_sent |-> FALSE, twitter_sent_at |-> None],
      [score |-> min_score, created_utc |-> Now0 - hours_back, summary |-> "summary",
       twitter_sent |-> FALSE, twitter_sent_at |-> None],
      [score |-> min_score - 1, created_utc |-> Now0, summary |-> "summary",
       twitter_sent |-> FALSE, twitter_sent_at |-> None],
      [score |-> 300, created_utc |-> Now0 - hours_back - 1, summary |-> "summary",
       twitter_sent |-> FALSE, twitter_sent_at |-> None],
      [score |-> 400, created_utc |-> Now0, summary |-> None,
       twitter_sent |-> FALSE, twitter_sent_at |-> None],
      [score |-> 350, created_utc |-> Now0, summary |-> "",
       twitter_sent |-> FALSE, twitter_sent_at |-> None] }

(***************************************************************************)
(* twitter_poster.py: get_posts_to_tweet                                   *)
(***************************************************************************)
time_cutoff(t) == t - hours_back

\* the filters of the query: .gte(created_utc).gte(score).eq(twitter_sent,
\* False).not_.is_(summary, null)
MeetsTweetCriteriaNoSentFilter(row, t) ==
    /\ row.created_utc >= time_cutoff(t)
    /\ row.score >= min_score
    /\ row.summary # None

MeetsTweetCriteria(row, t) ==
    /\ row.created_utc >= time_cutoff(t)
    /\ row.score >= min_score
    /\ row.twitter_sent = FALSE
    /\ row.summary # None

\* a query without the ordering: any post that meets the criteria
AnyCandidate(db, t) ==
    LET cand == {p \in PostIds : MeetsTweetCriteria(db[p], t)}
    IN  IF cand = {} THEN {<<>>} ELSE {<<p>> : p \in cand}

\* .order(score, desc=True).limit(1): the possible answers of the query (a
\* tie on score is broken by the database)
get_posts_to_tweet(db, t) ==
    LET cand == {p \in PostIds : MeetsTweetCriteria(db[p], t)}
        top  == {p \in cand : \A q \in cand : db[q].score <= db[p].score}
    IN  IF cand = {} THEN {<<>>} ELSE {<<p>> : p \in top}

(***************************************************************************)
(* twitter_client.py: generate_humorous_tweet_thread, TweetThread          *)
(***************************************************************************)
\* The thread is the LLM's non-empty lines followed by the fixed closing
\* tweet; a tweet is identified by its position in the thread.
TweetThread(n) == [k \in 1..n |-> k]

ThreadsGenerated == {TweetThread(n + 1) : n \in 0..MaxLLMTweets}

(***************************************************************************)
(* twitter_client.py: post_thread                                          *)
(***************************************************************************)
\* answers of client.create_tweet: data with an id, no data, TooManyRequests,
\* any other exception
TweetOutcomes == {"ok", "no_data", "rate_limit", "error"}

\* response.data['id']: the id Twitter gives its n-th tweet, a string
TweetId(n) == ToString(n)

\* a tweet posted without in_reply_to_tweet_id
NoReplyTarget(previous) == None

\* "if previous_tweet_id": the reply target of the tweet being created
ReplyTarget(previous) == IF previous # None THEN previous ELSE None

\* every branch that appends None ends the loop with break
StopsThreadOnlyOnRateLimit(outcome) == outcome = "rate_limit"

StopsThread(outcome) == outcome # "ok"

(***************************************************************************)
(* twitter_poster.py: post_tweet_for_reddit_post                           *)
(***************************************************************************)
AnyTweetPosted(ids) == \E i \in 1..Len(ids) : ids[i] # None

\* all(tweet_id is not None for tweet_id in tweet_ids)
AllTweetsPosted(ids) == \A i \in 1..Len(ids) : ids[i] # None

NoResults == [attempted |-> 0, successful |-> 0, failed |-> 0]

TwitterInit ==
    /\ reddit_posts \in [PostIds -> PostRows]
    /\ now = Now0
    /\ tw_pc = "idle"
    /\ cycle = 0
    /\ posts_to_tweet = <<>>
    /\ thread = <<>>
    /\ tweet_ids = <<>>
    /\ previous_tweet_id = None
    /\ attempts = 0
    /\ results = NoResults
    /\ timeline = <<>>
    /\ next_tweet_id = 1
    /\ query_failed = FALSE

\* run_tweet_posting_cycle up to the choice of the post; the query raising is
\* caught inside get_posts_to_tweet and gives the empty list
run_tweet_posting_cycle ==
    /\ tw_pc = "idle"
    /\ cycle < MaxCycles
    /\ cycle' = cycle + 1
    /\ \E query_ok \in BOOLEAN :
         \E found \in (IF query_ok THEN get_posts_to_tweet(reddit_posts, now) ELSE {<<>>}) :
            /\ posts_to_tweet' = found
            /\ query_failed' = ~query_ok
            /\ IF found = <<>>
               THEN /\ tw_pc' = "idle"
                    /\ results' = NoResults
               ELSE /\ tw_pc' = "generate"
                    /\ results' = [attempted |-> 1, successful |-> 0, failed |-> 0]
    /\ thread' = <<>>
    /\ tweet_ids' = <<>>
    /\ previous_tweet_id' = None
    /\ attempts' = 0
    /\ UNCHANGED <<reddit_posts, now, timeline, next_tweet_id>>
    /\ UNCHANGED outside_tw_vars

\* post_tweet_for_reddit_post, first half: the thread is generated; a raise
\* (LLM error, no content, a line over 280 characters) is caught and the post
\* counts as failed
generate_humorous_tweet_thread ==
    /\ tw_pc = "generate"
    /\ \/ \E t \in ThreadsGenerated :
            /\ thread' = t
            /\ tw_pc' = "post_thread"
            /\ UNCHANGED results
       \/ /\ thread' = <<>>
          /\ tw_pc' = "idle"
          /\ results' = [results EXCEPT !.failed = 1]
    /\ UNCHANGED <<reddit_posts, now, cycle, posts_to_tweet, tweet_ids,
                   previous_tweet_id, attempts, timeline, next_tweet_id>>
    /\ UNCHANGED query_failed
    /\ UNCHANGED outside_tw_vars

\* one iteration of the loop of post_thread: tweet number attempts + 1.  A
\* timeline entry is the tweet as Twitter holds it (id, text, reply target)
\* tagged with the post, the cycle and the thread length it belongs to.
post_thread ==
    /\ tw_pc = "post_thread"
    /\ LET i == attempts + 1 IN
       \E outcome \in TweetOutcomes :
          /\ attempts' = i
          /\ IF outcome = "ok"
             THEN /\ timeline' = Append(timeline,
                        [id |-> TweetId(next_tweet_id), text |-> thread[i],
                         in_reply_to_tweet_id |-> ReplyTarget(previous_tweet_id),
                         post |-> posts_to_tweet[1], cycle |-> cycle,
                         of |-> Len(thread)])
                  /\ next_tweet_id' = next_tweet_id + 1
                  /\ tweet_ids' = Append(tweet_ids, TweetId(next_tweet_id))
                  /\ previous_tweet_id' = TweetId(next_tweet_id)
             ELSE /\ tweet_ids' = Append(tweet_ids, None)
                  /\ UNCHANGED <<timeline, next_tweet_id, previous_tweet_id>>
          /\ tw_pc' = IF StopsThread(outcome) \/ i = Len(thread)
                      THEN "mark" ELSE "post_thread"
    /\ UNCHANGED <<reddit_posts, now, cycle, posts_to_tweet, thread, results>>
    /\ UNCHANGED query_failed
    /\ UNCHANGED outside_tw_vars

\* datetime.isoformat(): the timestamp as a string
isoformat(t) == ToString(t)

\* mark_post_as_tweeted: the update either returns the row or fails
mark_post_as_tweeted(db, reddit_id, t, ok) ==
    IF ok
    THEN [db EXCEPT ![reddit_id].twitter_sent = TRUE,
                    ![reddit_id].twitter_sent_at = isoformat(t)]
    ELSE db

\* post_tweet_for_reddit_post, second half: after post_thread has returned
post_tweet_for_reddit_post ==
    /\ tw_pc = "mark"
    /\ IF AllTweetsPosted(tweet_ids)
       THEN \E ok \in BOOLEAN :
              /\ reddit_posts' = mark_post_as_tweeted(reddit_posts, posts_to_tweet[1], now, ok)
              /\ results' = IF ok THEN [results EXCEPT !.successful = 1]
                                  ELSE [results EXCEPT !.failed = 1]
       ELSE /\ results' = [results EXCEPT !.failed = 1]
            /\ UNCHANGED reddit_posts
    /\ tw_pc' = "idle"
    /\ UNCHANGED <<now, cycle, posts_to_tweet, thread, tweet_ids,
                   previous_tweet_id, attempts, timeline, next_tweet_id>>
    /\ UNCHANGED query_failed
    /\ UNCHANGED outside_tw_vars

\* time passes between two runs of the script
Tick ==
    /\ tw_pc = "idle"
    /\ now < Now0 + MaxTicks
    /\ now' = now + 1
    /\ UNCHANGED <<reddit_posts, tw_pc, cycle, posts_to_tweet, thread, tweet_ids,
                   previous_tweet_id, attempts, results, timeline, next_tweet_id>>
    /\ UNCHANGED query_failed
    /\ UNCHANGED outside_tw_vars

TwitterNext ==
    \/ run_tweet_posting_cycle
    \/ generate_humorous_tweet_thread
    \/ post_thread
    \/ post_tweet_for_reddit_post
    \/ Tick

(***************************************************************************)
(* tgbot/digest_generator.py, tgbot/database.py: digest generation         *)
(***************************************************************************)
Min(a, b) == IF a < b THEN a ELSE b

\* DigestConfig.categories_order (default)
categories_order ==
    <<"news", "tool", "research", "tutorial",
      "discussion", "showcase", "question", "other">>

\* DigestGenerator.CATEGORY_CONFIG: max_posts of each section
CATEGORY_CONFIG ==
    [news |-> 4, tool |-> 3, research |-> 3, tutorial |-> 3,
     discussion |-> 2, showcase |-> 2, question |-> 2, other |-> 2]

\* DigestConfig.max_posts_per_digest (default)
max_posts_per_digest == 15

\* the n highest-scoring posts of a category, best first; a post is named by
\* its category and its rank in it
PostsOf(category, n) == [k \in 1..n |-> <<category, k>>]

\* Answers of get_posts_by_category: category -> posts sorted by score
\* descending.  The empty mapping is also the answer when the query fails.
PostsAnswers ==
    { <<>>,
      [c \in {"news", "tool"} |-> PostsOf(c, IF c = "news" THEN 5 ELSE 1)],
      [c \in {"meme"} |-> PostsOf(c, 1)] }

\* "if total_posts >= self.config.max_posts_per_digest: break"
OverLimit(total_posts, max_posts) == total_posts > max_posts

ReachedLimit(total_posts, max_posts) == total_posts >= max_posts

\* the loop over config.categories_order; acc holds digest_sections,
\* total_posts and all_post_ids
RECURSIVE WalkCategories(_, _, _, _, _)
WalkCategories(order, max_posts, posts_by_category, i, acc) ==
    IF i > Len(order) THEN acc
    ELSE LET category == order[i] IN
         IF /\ category \in DOMAIN posts_by_category
            /\ posts_by_category[category] # <<>>
            /\ category \in DOMAIN CATEGORY_CONFIG
         THEN LET avail == posts_by_category[category]
                  posts == SubSeq(avail, 1, Min(CATEGORY_CONFIG[category], Len(avail)))
                  acc2  == [digest_sections |-> Append(acc.digest_sections, category),
                            total_posts |-> acc.total_posts + Len(posts),
                            all_post_ids |-> acc.all_post_ids \o posts]
              IN  IF ReachedLimit(acc2.total_posts, max_posts)
                  THEN acc2
                  ELSE WalkCategories(order, max_posts, posts_by_category, i + 1, acc2)
         ELSE WalkCategories(order, max_posts, posts_by_category, i + 1, acc)

DigestSections(order, max_posts, posts_by_category) ==
    WalkCategories(order, max_posts, posts_by_category, 1,
                   [digest_sections |-> <<>>, total_posts |-> 0, all_post_ids |-> <<>>])

\* Python truthiness of an optional string / id
Truthy(x) == x # None /\ x # ""

\* the id the database gives a new row of daily_digests
NewDigestId(dd) == ToString(Len(dd) + 1)

\* date.isoformat()
date_isoformat(d) == ToString(d)

\* (datetime.now(timezone.utc) - timedelta(days=1)).date()
target_date(day) == day - 1

\* check_digest_exists_for_date: the query failing is caught and answered False
check_digest_exists_for_date(dd, date, query_ok) ==
    IF query_ok THEN \E i \in 1..Len(dd) : dd[i].date = date_isoformat(date) ELSE FALSE

\* create_digest_record: the insert returns the new row, or fails (None).
\* A row also carries history, the statuses written to it so far, in order.
create_digest_record(dd, date, post_count, ok) ==
    IF ok
    THEN [digest_id |-> NewDigestId(dd),
          daily_digests |-> Append(dd, [id |-> NewDigestId(dd),
                                        date |-> date_isoformat(date),
                                        post_count |-> post_count,
                                        status |-> "pending",
                                        telegram_message_id |-> None,
                                        history |-> <<"pending">>])]
    ELSE [digest_id |-> None, daily_digests |-> dd]

\* add_posts_to_digest: one junction row per post, or nothing when it fails
add_posts_to_digest(dp, id, post_reddit_ids, ok) ==
    IF ok
    THEN dp \cup {[digest_id |-> id, post_reddit_id |-> post_reddit_ids[k]] :
                     k \in 1..Len(post_reddit_ids)}
    ELSE dp

\* update_digest_status: the update of the row with that id, or nothing when
\* it fails; the message id is written only when one is given
update_digest_status(dd, id, status, telegram_message_id, ok) ==
    IF ok
    THEN [i \in 1..Len(dd) |->
            IF dd[i].id = id
            THEN [dd[i] EXCEPT !.status = status,
                               !.history = Append(@, status),
                               !.telegram_message_id =
                                   IF Truthy(telegram_message_id)
                                   THEN telegram_message_id ELSE @]
            ELSE dd[i]]
    ELSE dd

\* the rendered message: determined by the date and the posts of its sections
NoMessage == [date |-> None, post_ids |-> <<>>]

EmptyResult(dd, dp) ==
    [message |-> NoMessage, digest_id |-> None, post_ids |-> <<>>,
     daily_digests |-> dd, digest_posts |-> dp]

\* generate_daily_digest: none of its awaited database calls suspends (the
\* client's execute() is a blocking call that database.py does not await), so
\* the whole function runs within one step of the event loop
generate_daily_digest(dd, dp, date, check_ok, posts_by_category, create_ok, add_ok) ==
    IF check_digest_exists_for_date(dd, date, check_ok) THEN EmptyResult(dd, dp)
    ELSE IF DOMAIN posts_by_category = {} THEN EmptyResult(dd, dp)
    ELSE LET w == DigestSections(categories_order, max_posts_per_digest, posts_by_category) IN
         IF w.digest_sections = <<>> THEN EmptyResult(dd, dp)
         ELSE LET c == create_digest_record(dd, date, w.total_posts, create_ok) IN
              [message |-> [date |-> date_isoformat(date), post_ids |-> w.all_post_ids],
               digest_id |-> c.digest_id,
               post_ids |-> w.all_post_ids,
               daily_digests |-> c.daily_digests,
               digest_posts |-> IF Truthy(c.digest_id)
                                THEN add_posts_to_digest(dp, c.digest_id, w.all_post_ids, add_ok)
                                ELSE dp]

(***************************************************************************)
(* tgbot/src/tgbot/bot.py: AIDigestBot                                     *)
(***************************************************************************)
\* The event loop runs the scheduled job and the /test_digest handler as
\* two tasks; a step runs one task from one suspension point (a Telegram
\* call) to the next.
Tasks == {"job", "cmd"}

ChatIds == 1..NumChats

\* a user of the bot who is no admin
Outsider == NumChats + 1

Users == ChatIds \cup {Outsider}

\* TELEGRAM_ADMIN_CHAT_IDS: lists of distinct chat ids
AdminLists ==
    {l \in UNION {[1..n -> ChatIds] : n \in 0..NumChats} :
        \A i, j \in 1..Len(l) : i # j => l[i] # l[j]}

\* sent_message.message_id of the n-th message Telegram delivers
MessageId(n) == ToString(n)

\* the position send_daily_digest returns to
ReturnPc(T) == IF T = "job" THEN "idle" ELSE "reply_success"

\* "user.id not in self.config.telegram.admin_chat_ids"
EveryoneIsAdmin(u) == TRUE

IsAdmin(u) == \E i \in 1..Len(admin_chat_ids) : admin_chat_ids[i] = u

\* "if successful_sends == 1 and digest_id"
EverySuccess(n) == n >= 1

FirstSuccess(n) == n = 1

\* the except inside the for loop: the loop goes on to the next chat
ContinuesOnlyAfterSuccess(ok) == ok

ContinuesAfterSend(ok) == TRUE

BotLocalsInit ==
    /\ today = 1
    /\ daily_digests = <<>>
    /\ digest_posts = {}
    /\ bot_pc = [T \in Tasks |-> "idle"]
    /\ runs = [T \in Tasks |-> 0]
    /\ cmd_user = Outsider
    /\ message = [T \in Tasks |-> NoMessage]
    /\ digest_id = [T \in Tasks |-> None]
    /\ successful_sends = [T \in Tasks |-> 0]
    /\ sends = [T \in Tasks |-> <<>>]
    /\ replies = <<>>
    /\ delivered = {}
    /\ next_message_id = 1

BotInit ==
    /\ admin_chat_ids \in AdminLists
    /\ BotLocalsInit

\* the bot while only the Twitter poster is observed
BotIdle ==
    /\ admin_chat_ids = <<>>
    /\ BotLocalsInit

\* the Twitter poster while only the bot is observed
TwitterIdle ==
    /\ reddit_posts = [p \in PostIds |-> CHOOSE r \in PostRows : TRUE]
    /\ now = Now0
    /\ tw_pc = "idle"
    /\ cycle = 0
    /\ posts_to_tweet = <<>>
    /\ thread = <<>>
    /\ tweet_ids = <<>>
    /\ previous_tweet_id = None
    /\ attempts = 0
    /\ results = NoResults
    /\ timeline = <<>>
    /\ next_tweet_id = 1
    /\ query_failed = FALSE

\* job firings and /test_digest commands so far
CyclesStarted == runs["job"] + runs["cmd"]

\* send_daily_digest from its start to its first suspension point: the digest
\* is generated, marked processing, and the first send_message is issued;
\* without a message, or without admin chats, the function returns
BeginSend(T) ==
    \E check_ok, create_ok, add_ok, processing_ok, failed_ok \in BOOLEAN :
    \E posts_by_category \in PostsAnswers :
       LET g   == generate_daily_digest(daily_digests, digest_posts, target_date(today),
                                        check_ok, posts_by_category, create_ok, add_ok)
           dd1 == IF Truthy(g.digest_id)
                  THEN update_digest_status(g.daily_digests, g.digest_id,
                                            "processing", None, processing_ok)
                  ELSE g.daily_digests
           dd2 == IF Truthy(g.digest_id)
                  THEN update_digest_status(dd1, g.digest_id, "failed", None, failed_ok)
                  ELSE dd1
       IN  /\ message' = [message EXCEPT ![T] = g.message]
           /\ digest_id' = [digest_id EXCEPT ![T] = g.digest_id]
           /\ digest_posts' = g.digest_posts
           /\ successful_sends' = [successful_sends EXCEPT ![T] = 0]
           /\ IF g.message = NoMessage
              THEN /\ daily_digests' = g.daily_digests
                   /\ sends' = [sends EXCEPT ![T] = <<>>]
                   /\ bot_pc' = [bot_pc EXCEPT ![T] = ReturnPc(T)]
              ELSE IF admin_chat_ids = <<>>
              THEN /\ daily_digests' = dd2
                   /\ sends' = [sends EXCEPT ![T] = <<>>]
                   /\ bot_pc' = [bot_pc EXCEPT ![T] = ReturnPc(T)]
              ELSE /\ daily_digests' = dd1
                   /\ sends' = [sends EXCEPT ![T] = <<admin_chat_ids[1]>>]
                   /\ bot_pc' = [bot_pc EXCEPT ![T] = "sending"]

\* the cron trigger fires the scheduled job
scheduled_send_daily_digest ==
    /\ bot_pc["job"] = "idle"
    /\ CyclesStarted < MaxRuns
    /\ runs' = [runs EXCEPT !["job"] = @ + 1]
    /\ BeginSend("job")
    /\ UNCHANGED <<admin_chat_ids, today, cmd_user, replies, delivered, next_message_id>>
    /\ UNCHANGED outside_bot_vars

\* send_daily_digest resumes when bot.send_message returns or raises: the
\* rest of the loop body, then the next send_message or the end of the
\* function
send_message_returns(T) ==
    /\ bot_pc[T] = "sending"
    /\ \E ok, completed_ok, failed_ok \in BOOLEAN :
         LET k    == Len(sends[T])
             n    == IF ok THEN successful_sends[T] + 1 ELSE successful_sends[T]
             mid  == MessageId(next_message_id)
             dd1  == IF ok /\ FirstSuccess(n) /\ Truthy(digest_id[T])
                     THEN update_digest_status(daily_digests, digest_id[T],
                                               "completed", mid, completed_ok)
                     ELSE daily_digests
             last == k = Len(admin_chat_ids) \/ ~ContinuesAfterSend(ok)
             dd2  == IF last /\ n = 0 /\ Truthy(digest_id[T])
                     THEN update_digest_status(dd1, digest_id[T], "failed", None, failed_ok)
                     ELSE dd1
         IN  /\ successful_sends' = [successful_sends EXCEPT ![T] = n]
             /\ delivered' = IF ok
                             THEN delivered \cup
                                    {[chat_id |-> sends[T][k], date |-> message[T].date,
                                      message_id |-> mid, task |-> T, run |-> runs[T]]}
                             ELSE delivered
             /\ next_message_id' = IF ok THEN next_message_id + 1 ELSE next_message_id
             /\ daily_digests' = dd2
             /\ IF last
                THEN /\ bot_pc' = [bot_pc EXCEPT ![T] = ReturnPc(T)]
                     /\ UNCHANGED sends
                ELSE /\ sends' = [sends EXCEPT ![T] = Append(@, admin_chat_ids[k + 1])]
                     /\ UNCHANGED bot_pc
    /\ UNCHANGED <<admin_chat_ids, today, digest_posts, runs, cmd_user, message,
                   digest_id, replies>>
    /\ UNCHANGED outside_bot_vars

\* test_digest_command up to its first reply_text
test_digest_command(u) ==
    /\ bot_pc["cmd"] = "idle"
    /\ CyclesStarted < MaxRuns
    /\ runs' = [runs EXCEPT !["cmd"] = @ + 1]
    /\ cmd_user' = u
    /\ replies' = <<>>
    /\ bot_pc' = [bot_pc EXCEPT !["cmd"] =
                     IF IsAdmin(u) THEN "reply_generating" ELSE "reply_denied"]
    /\ message' = [message EXCEPT !["cmd"] = NoMessage]
    /\ digest_id' = [digest_id EXCEPT !["cmd"] = None]
    /\ successful_sends' = [successful_sends EXCEPT !["cmd"] = 0]
    /\ sends' = [sends EXCEPT !["cmd"] = <<>>]
    /\ UNCHANGED <<admin_chat_ids, today, daily_digests, digest_posts, delivered,
                   next_message_id>>
    /\ UNCHANGED outside_bot_vars

\* the "only available to administrators" reply returns or raises: the
\* handler ends either way
denied_reply_returns ==
    /\ bot_pc["cmd"] = "reply_denied"
    /\ \E ok \in BOOLEAN :
         replies' = IF ok THEN Append(replies, "denied") ELSE replies
    /\ bot_pc' = [bot_pc EXCEPT !["cmd"] = "idle"]
    /\ UNCHANGED <<admin_chat_ids, today, daily_digests, digest_posts, runs, cmd_user,
                   message, digest_id, successful_sends, sends, delivered,
                   next_message_id>>
    /\ UNCHANGED outside_bot_vars

\* the "Generating test digest..." reply returns: send_daily_digest starts
generating_reply_returns ==
    /\ bot_pc["cmd"] = "reply_generating"
    /\ replies' = Append(replies, "generating")
    /\ BeginSend("cmd")
    /\ UNCHANGED <<admin_chat_ids, today, runs, cmd_user, delivered, next_message_id>>
    /\ UNCHANGED outside_bot_vars

\* the "Generating test digest..." reply raises: it is outside the try, the
\* handler ends without calling send_daily_digest
generating_reply_raises ==
    /\ bot_pc["cmd"] = "reply_generating"
    /\ bot_pc' = [bot_pc EXCEPT !["cmd"] = "idle"]
    /\ UNCHANGED <<admin_chat_ids, today, daily_digests, digest_posts, runs, cmd_user,
                   message, digest_id, successful_sends, sends, replies, delivered,
                   next_message_id>>
    /\ UNCHANGED outside_bot_vars

\* the "Test digest generated and sent!" reply returns, or raises into the
\* except branch, which replies with the error text
success_reply_returns ==
    /\ bot_pc["cmd"] = "reply_success"
    /\ \E ok \in BOOLEAN :
         /\ replies' = IF ok THEN Append(replies, "success") ELSE replies
         /\ bot_pc' = [bot_pc EXCEPT !["cmd"] = IF ok THEN "idle" ELSE "reply_error"]
    /\ UNCHANGED <<admin_chat_ids, today, daily_digests, digest_posts, runs, cmd_user,
                   message, digest_id, successful_sends, sends, delivered,
                   next_message_id>>
    /\ UNCHANGED outside_bot_vars

\* the error reply returns or raises: the handler ends either way
error_reply_returns ==
    /\ bot_pc["cmd"] = "reply_error"
    /\ \E ok \in BOOLEAN :
         replies' = IF ok THEN Append(replies, "error") ELSE replies
    /\ bot_pc' = [bot_pc EXCEPT !["cmd"] = "idle"]
    /\ UNCHANGED <<admin_chat_ids, today, daily_digests, digest_posts, runs, cmd_user,
                   message, digest_id, successful_sends, sends, delivered,
                   next_message_id>>
    /\ UNCHANGED outside_bot_vars

\* midnight (UTC) passes
DayPasses ==
    /\ today < 1 + MaxDays
    /\ today' = today + 1
    /\ UNCHANGED <<admin_chat_ids, daily_digests, digest_posts, bot_pc, runs, cmd_user,
                   message, digest_id, successful_sends, sends, replies, delivered,
                   next_message_id>>
    /\ UNCHANGED outside_bot_vars

DigestNext ==
    \/ scheduled_send_daily_digest
    \/ \E T \in Tasks : send_message_returns(T)
    \/ \E u \in Users : test_digest_command(u)
    \/ denied_reply_returns
    \/ generating_reply_returns
    \/ generating_reply_raises
    \/ success_reply_returns
    \/ error_reply_returns
    \/ DayPasses

(***************************************************************************)
(* tgbot/database.py, digest_generator.py: the selection of a digest's     *)
(* posts, from the answer of the posts query to the walk's result          *)
(***************************************************************************)
\* content_type values of the posts: two configured categories and one that
\* is in no category order
ContentTypes == {"news", "tool", "meme"}

PostScores == {1, 2}

\* Answers of the query of get_posts_for_digest: rows in the order of
\* .order('score', desc=True); a row's reddit_id is its place in the table
QueryAnswers ==
    {[i \in 1..Len(s) |-> [reddit_id |-> i, content_type |-> s[i][1], score |-> s[i][2]]] :
        s \in {t \in UNION {[1..n -> ContentTypes \X PostScores] : n \in 0..MaxWalkPosts} :
                 \A i \in 1..(Len(t) - 1) : t[i][2] >= t[i + 1][2]}}

\* values of MAX_POSTS_PER_DIGEST
OverallCaps == 0..MaxOverallCap

\* list.sort(key=score, reverse=True): a stable sort, highest score first
RECURSIVE SortByScore(_)
SortByScore(posts) ==
    IF posts = <<>> THEN <<>>
    ELSE LET h    == Head(posts)
             rest == SortByScore(Tail(posts))
             k    == Cardinality({i \in 1..Len(rest) : rest[i].score > h.score})
         IN  SubSeq(rest, 1, k) \o <<h>> \o SubSeq(rest, k + 1, Len(rest))

\* get_posts_by_category: the posts grouped by content_type, each group
\* sorted by score; the order of the dictionary's keys is not modelled, the
\* walk only looks categories up
get_posts_by_category(posts) ==
    [c \in {posts[i].content_type : i \in 1..Len(posts)} |->
        LET InCategory(post) == post.content_type = c
        IN  SortByScore(SelectSeq(posts, InCategory))]

\* [post['reddit_id'] for post in posts]
reddit_ids(posts) == [k \in 1..Len(posts) |-> posts[k].reddit_id]

NoWalk == [digest_sections |-> <<>>, total_posts |-> 0, all_post_ids |-> <<>>]

WalkInit ==
    /\ walk_posts \in QueryAnswers
    /\ walk_max \in OverallCaps
    /\ walk_pc = "ready"
    /\ walk_result = NoWalk

\* the selection while another subsystem is observed
WalkIdle ==
    /\ walk_posts = <<>>
    /\ walk_max = max_posts_per_digest
    /\ walk_pc = "ready"
    /\ walk_result = NoWalk

\* generate_daily_digest from the posts query to the end of the loop over
\* the categories
select_digest_posts ==
    /\ walk_pc = "ready"
    /\ walk_pc' = "done"
    /\ LET posts_by_category == get_posts_by_category(walk_posts)
       IN  walk_result' =
              DigestSections(categories_order, walk_max,
                             [c \in DOMAIN posts_by_category |->
                                 reddit_ids(posts_by_category[c])])
    /\ UNCHANGED <<walk_posts, walk_max>>
    /\ UNCHANGED outside_walk_vars

WalkNext == select_digest_posts

(***************************************************************************)
(* tgbot/chat_handler.py, tgbot/src/tgbot/handlers: the interactive        *)
(* handlers.  The application handles one update at a time, so a handler   *)
(* runs from start to end as one step; each of its awaited calls succeeds  *)
(* or raises.  Texts are sequences of characters; a fixed text of the      *)
(* program is a sequence of one element, the text itself.                  *)
(***************************************************************************)
\* "if len(self.user_contexts[user_id]) > 20"
HistoryLimit == 20

ChatUsers == 1..NumChatUsers

Chars == {" ", "a"}

\* response.choices[0].message.content
ModelReplies == UNION {[1..n -> Chars] : n \in 0..MaxReplyLen}

\* what the completions call does: a reply, a reply without content, or one
\* of the exceptions handle_message distinguishes
LLMOutcomes ==
    {[kind |-> "ok", content |-> c] : c \in ModelReplies} \cup
    {[kind |-> k, content |-> <<>>] :
        k \in {"no_content", "RateLimitError", "APITimeoutError", "APIError", "Exception"}}

\* what a user can send as text (an update without text has none)
UserTexts == {<<>>, <<"h", "i">>}

\* str.strip()
RECURSIVE lstrip(_)
lstrip(text) ==
    IF text # <<>> /\ Head(text) = " " THEN lstrip(Tail(text)) ELSE text

RECURSIVE rstrip(_)
rstrip(text) ==
    IF text # <<>> /\ text[Len(text)] = " "
    THEN rstrip(SubSeq(text, 1, Len(text) - 1))
    ELSE text

strip(text) == rstrip(lstrip(text))

\* the canned replies of ChatHandler.handle_message
SameApology(kind) ==
    <<"Something went wrong while processing your message. Please try again.">>

Apology(kind) ==
    CASE kind = "no_content" ->
           <<"I'm sorry, I couldn't generate a response right now. Please try again.">>
      [] kind = "RateLimitError" ->
           <<"I'm experiencing high demand right now. Please wait a moment and try again.">>
      [] kind = "APITimeoutError" ->
           <<"My response took too long to generate. Please try asking again.">>
      [] kind = "APIError" ->
           <<"I'm having technical difficulties right now. Please try again in a few minutes.">>
      [] OTHER ->
           <<"Something went wrong while processing your message. Please try again.">>

\* ChatHandler.handle_message: the reply to give, whatever the call did
handle_message(outcome) ==
    IF outcome.kind = "ok"
    THEN IF outcome.content = <<>> THEN Apology("no_content") ELSE strip(outcome.content)
    ELSE Apology(outcome.kind)

\* the fixed texts the handlers send
WelcomeMessage == <<"welcome_message">>

HelpMessage == <<"help_message">>

StatsMessage == <<"stats_message">>

StatsApology == <<"Unable to retrieve statistics right now.">>

NoDigestsMessage == <<"No digests available yet.">>

LatestDigestMessage == <<"Latest Digest">>

DigestApology == <<"Unable to retrieve digest information right now.">>

TextApology == <<"I encountered an error processing your message. Please try again.">>

\* the conversation after n turns that went well
Alternating(n) ==
    [i \in 1..n |-> IF i % 2 = 1 THEN [role |-> "user", content |-> <<"h", "i">>]
                    ELSE [role |-> "assistant", content |-> <<"a">>]]

\* self.user_contexts[user_id][-20:]
LastEntries(history, n) ==
    IF Len(history) > n THEN SubSeq(history, Len(history) - n + 1, Len(history)) ELSE history

NoOutcome == [kind |-> "not_called", content |-> <<>>]

\* "chat_context[-10:]": the context turns a request takes along
ContextTurns == 10

\* {"role": "system", "content": self.system_prompt}
SystemPrompt == [role |-> "system", content |-> <<"system_prompt">>]

\* a request made of the system prompt and the new message alone
WithoutContext(user_message, chat_context) ==
    <<SystemPrompt, [role |-> "user", content |-> user_message]>>

\* ChatHandler.handle_message, the messages it builds: the system prompt,
\* the last turns of the context it was handed, the user message
messages(user_message, chat_context) ==
    <<SystemPrompt>> \o LastEntries(chat_context, ContextTurns)
        \o <<[role |-> "user", content |-> user_message]>>

NoRequest == [user_id |-> 0, messages |-> <<>>]

\* what is recorded of the handler that ran last: the texts it sent, whether
\* an exception left it, and for the text handler the model call and the
\* response handle_message gave
Handled(handler, raised, sent, llm, response) ==
    [handler |-> handler, raised |-> raised, replies |-> sent,
     llm |-> llm, response |-> response]

ChatInit ==
    /\ user_contexts \in [ChatUsers -> {<<>>, Alternating(HistoryLimit)}]
    /\ handled = 0
    /\ last_handled = Handled("none", FALSE, <<>>, NoOutcome, <<>>)
    /\ chat_request = NoRequest

\* the handlers while another subsystem is observed
ChatIdle ==
    /\ user_contexts = [u \in ChatUsers |-> <<>>]
    /\ handled = 0
    /\ last_handled = Handled("none", FALSE, <<>>, NoOutcome, <<>>)
    /\ chat_request = NoRequest

\* a try block whose reply_text failed (or that never got to it) ends in
\* the except branch, which sends the apology; if that reply_text raises
\* too, the exception leaves the handler
ReplyOrApologize(handler, text, reply_ok, apology, apology_ok, llm, response) ==
    IF reply_ok
    THEN Handled(handler, FALSE, <<text>>, llm, response)
    ELSE IF apology_ok
    THEN Handled(handler, FALSE, <<apology>>, llm, response)
    ELSE Handled(handler, TRUE, <<>>, llm, response)

start_command ==
    /\ handled < MaxHandled
    /\ handled' = handled + 1
    /\ \E reply_ok \in BOOLEAN :
         last_handled' = Handled("start", ~reply_ok, IF reply_ok THEN <<WelcomeMessage>> ELSE <<>>,
                         NoOutcome, <<>>)
    /\ UNCHANGED <<user_contexts, chat_request>>
    /\ UNCHANGED outside_chat_vars

help_command ==
    /\ handled < MaxHandled
    /\ handled' = handled + 1
    /\ \E reply_ok \in BOOLEAN :
         last_handled' = Handled("help", ~reply_ok, IF reply_ok THEN <<HelpMessage>> ELSE <<>>,
                         NoOutcome, <<>>)
    /\ UNCHANGED <<user_contexts, chat_request>>
    /\ UNCHANGED outside_chat_vars

stats_command ==
    /\ handled < MaxHandled
    /\ handled' = handled + 1
    /\ \E reply_ok, apology_ok \in BOOLEAN :
         last_handled' = ReplyOrApologize("stats", StatsMessage, reply_ok,
                                  StatsApology, apology_ok, NoOutcome, <<>>)
    /\ UNCHANGED <<user_contexts, chat_request>>
    /\ UNCHANGED outside_chat_vars

digest_command ==
    /\ handled < MaxHandled
    /\ handled' = handled + 1
    /\ \E has_digest, reply_ok, apology_ok \in BOOLEAN :
         last_handled' = ReplyOrApologize("digest",
                                  IF has_digest THEN LatestDigestMessage ELSE NoDigestsMessage,
                                  reply_ok, DigestApology, apology_ok, NoOutcome, <<>>)
    /\ UNCHANGED <<user_contexts, chat_request>>
    /\ UNCHANGED outside_chat_vars

handle_text_message(u, user_message) ==
    /\ handled < MaxHandled
    /\ handled' = handled + 1
    /\ IF user_message = <<>>
       THEN /\ last_handled' = Handled("text", FALSE, <<>>, NoOutcome, <<>>)
            /\ UNCHANGED <<user_contexts, chat_request>>
       ELSE \E typing_ok, reply_ok, apology_ok \in BOOLEAN : \E outcome \in LLMOutcomes :
              LET asked    == Append(user_contexts[u],
                                     [role |-> "user", content |-> user_message])
                  response == handle_message(outcome)
                  answered == Append(asked, [role |-> "assistant", content |-> response])
              IN  IF typing_ok
                  THEN /\ user_contexts' =
                             [user_contexts EXCEPT ![u] = LastEntries(answered, HistoryLimit)]
                       /\ chat_request' = [user_id |-> u,
                                           messages |-> messages(user_message, asked)]
                       /\ last_handled' = ReplyOrApologize("text", response,
                                                   reply_ok /\ response # <<>>,
                                                   TextApology, apology_ok,
                                                   outcome, response)
                  ELSE /\ user_contexts' = [user_contexts EXCEPT ![u] = asked]
                       /\ UNCHANGED chat_request
                       /\ last_handled' = ReplyOrApologize("text", <<>>, FALSE,
                                                   TextApology, apology_ok,
                                                   NoOutcome, <<>>)
    /\ UNCHANGED outside_chat_vars

ChatNext ==
    \/ start_command
    \/ help_command
    \/ stats_command
    \/ digest_command
    \/ \E u \in ChatUsers : \E user_message \in UserTexts : handle_text_message(u, user_message)

(***************************************************************************)
(* scripts/src/reddit_fetcher.py: one run of fetch_all_subreddits.  A step *)
(* is a call of fetch_subreddit_submissions, one turn of its loop over the *)
(* hot listing, or the listing ending or raising.                          *)
(***************************************************************************)
\* TARGET_SUBREDDITS: the first subreddits of the default list
target_subreddits ==
    SubSeq(<<"AI_Agents", "artificial", "ClaudeAI", "LangChain",
             "LocalLLaMA", "OpenAI", "PromptEngineering", "singularity">>,
           1, NumSubreddits)

\* FetchConfig.min_submission_score
min_submission_score == 5

\* FetchConfig.min_comment_score
min_comment_score == 2

\* validate_score: the bounds a stored score is kept within
ScoreFloor == -100000

ScoreCeiling == 100000

\* submissions a hot listing can yield: the same submission can come with a
\* different score each time it is listed
SubmissionIds == {"abc123", "abc124"}

Submissions == [id : SubmissionIds, score : {3, 7, 9}]

\* the top-level comment a submission can have, and its score when fetched
CommentOf == [id \in SubmissionIds |-> IF id = "abc123" THEN "def456" ELSE "def457"]

CommentScores == {1, 6}

\* what submission.comments does: no comment, one comment, or an exception
CommentOutcomes ==
    {[kind |-> k, score |-> 0] : k \in {"none", "TooManyRequests", "Exception"}} \cup
    {[kind |-> "comment", score |-> c] : c \in CommentScores}

\* what the hot listing can raise
ListingErrors == {"TooManyRequests", "ServerError", "Exception"}

\* validate_score
validate_score(score) ==
    IF score < ScoreFloor THEN ScoreFloor
    ELSE IF score > ScoreCeiling THEN ScoreCeiling ELSE score

\* _should_include_submission: the listed submissions are not stickied, not
\* deleted and have a title of ten characters or more
should_include_submission(submission) == submission.score >= min_submission_score

\* comment.body: a text, or None
NoBody == [present |-> FALSE, chars |-> <<>>]

Body(chars) == [present |-> TRUE, chars |-> chars]

\* "[deleted]" and "[removed]"
DeletedBody ==
    Body(<<"[", "d", "e", "l", "e", "t", "e", "d", "]">>)

RemovedBody ==
    Body(<<"[", "r", "e", "m", "o", "v", "e", "d", "]">>)

\* "This is a detailed explanation of how the model works."
DetailedBody ==
    Body(<<"T", "h", "i", "s", " ", "i", "s", " ", "a", " ", "d", "e", "t",
           "a", "i", "l", "e", "d", " ", "e", "x", "p", "l", "a", "n", "a",
           "t", "i", "o", "n", " ", "o", "f", " ", "h", "o", "w", " ", "t",
           "h", "e", " ", "m", "o", "d", "e", "l", " ", "w", "o", "r", "k",
           "s", ".">>)

\* str.lower() of one character
UpperCase ==
    <<"A", "B", "C", "D", "E", "F", "G", "H", "I", "J", "K", "L", "M", "N",
      "O", "P", "Q", "R", "S", "T", "U", "V", "W", "X", "Y", "Z">>

LowerCase ==
    <<"a", "b", "c", "d", "e", "f", "g", "h", "i", "j", "k", "l", "m", "n",
      "o", "p", "q", "r", "s", "t", "u", "v", "w", "x", "y", "z">>

lower_char(c) ==
    IF \E i \in DOMAIN UpperCase : UpperCase[i] = c
    THEN LowerCase[CHOOSE i \in DOMAIN UpperCase : UpperCase[i] = c]
    ELSE c

\* str.lower()
lower_case(text) == [i \in DOMAIN text |-> lower_char(text[i])]

\* the answers the filter takes for no information
basic_responses ==
    {<<"t", "h", "i", "s">>,
     <<"s", "a", "m", "e">>,
     <<"y", "e", "s">>,
     <<"n", "o">>,
     <<"l", "o", "l">>,
     <<"t", "h", "a", "n", "k", "s">>}

\* the shortest trimmed body the filter lets through
MinBodyLength == 10

\* a filter that looks at the score alone
ScoreOnly(comment) == comment.score >= min_comment_score

\* _should_include_comment
should_include_comment(comment) ==
    IF comment.body \in {DeletedBody, RemovedBody, NoBody} THEN FALSE
    ELSE IF comment.score < min_comment_score THEN FALSE
    ELSE IF Len(strip(comment.body.chars)) < MinBodyLength THEN FALSE
    ELSE IF lower_case(strip(comment.body.chars)) \in basic_responses THEN FALSE
    ELSE TRUE

\* table.insert(data): a new row whatever the table holds
insert(table, data) == table \cup {data}

\* table.upsert(data): the row with the data's reddit_id is replaced, or
\* the data becomes a new row
upsert(table, data) ==
    {row \in table : row.reddit_id # data.reddit_id} \cup {data}

\* store_submission: the validated data is upserted; a failing database
\* call leaves the table alone and the answer is False
store_submission(table, submission, subreddit_name, db_ok) ==
    IF db_ok
    THEN [stored |-> TRUE,
          table |-> upsert(table, [reddit_id |-> submission.id,
                                   subreddit_name |-> subreddit_name,
                                   score |-> validate_score(submission.score)])]
    ELSE [stored |-> FALSE, table |-> table]

\* "max(0, min(10, int(depth)))": the deepest depth a row records
DepthCeiling == 10

\* store_comment
store_comment(table, comment, post_reddit_id, parent_comment_reddit_id, depth, db_ok) ==
    IF db_ok
    THEN [stored |-> TRUE,
          table |-> upsert(table, [reddit_id |-> comment.id,
                                   post_reddit_id |-> post_reddit_id,
                                   parent_comment_reddit_id |-> parent_comment_reddit_id,
                                   score |-> validate_score(comment.score),
                                   depth |-> IF depth < 0 THEN 0
                                             ELSE IF depth > DepthCeiling
                                                  THEN DepthCeiling ELSE depth])]
    ELSE [stored |-> FALSE, table |-> table]

\* fetch_submission_comments: nothing is fetched when comment fetching is
\* off; every exception, too-many-requests included, ends in one of its
\* except clauses
fetch_submission_comments(table, submission, outcome, db_ok) ==
    IF ~fetch_comments THEN table
    ELSE IF outcome.kind = "comment"
    THEN LET comment == [id |-> CommentOf[submission.id], score |-> outcome.score,
                         body |-> DetailedBody]
         IN  IF should_include_comment(comment)
             THEN store_comment(table, comment, submission.id, None, 0, db_ok).table
             ELSE table
    ELSE table

\* the except clauses of fetch_all_subreddits: the loop goes on after any
\* exception
ContinuesOnlyAfterRateLimit(kind) == kind = "TooManyRequests"

ContinuesAfter(kind) == TRUE

NoStore == [prev |-> 0, last |-> 0]

\* comments asked for whatever became of the submission
FetchesCommentsAlways(stored) == TRUE

\* "if self.store_submission(...)" and, inside it, "if fetch_comments": the
\* comments of a submission are asked for
FetchesComments(stored) == stored /\ fetch_comments

\* the fetcher before a run, whatever its configuration
FetchReset ==
    /\ fetch_pc = "idle"
    /\ fetch_i = 0
    /\ fetch_attempt = 0
    /\ fetch_yielded = 0
    /\ stored_count = 0
    /\ fetch_results = <<>>
    /\ fetch_log = <<>>
    /\ fetch_pauses = <<>>
    /\ fetch_signals = {}
    /\ posts_table = {}
    /\ comments_table = {}
    /\ post_stores = [id \in SubmissionIds |-> NoStore]

FetchInit == FetchReset /\ fetch_comments \in BOOLEAN

\* the fetcher while another subsystem is observed
FetchIdle == FetchReset /\ fetch_comments = TRUE

\* how the running call of fetch_subreddit_submissions ended
Attempt(outcome) ==
    [subreddit |-> target_subreddits[fetch_i], attempt |-> fetch_attempt,
     outcome |-> outcome]

\* results[subreddit_name] = count
Recorded(res, name, count) ==
    [n \in DOMAIN res \cup {name} |-> IF n = name THEN count ELSE res[n]]

\* fetch_all_subreddits after the entry for target fetch_i was recorded: the
\* next target, or the end of the run
NextTarget(res) ==
    /\ fetch_results' = res
    /\ IF fetch_i < Len(target_subreddits)
       THEN /\ fetch_pc' = "calling"
            /\ fetch_i' = fetch_i + 1
            /\ fetch_attempt' = 1
       ELSE /\ fetch_pc' = "done"
            /\ UNCHANGED <<fetch_i, fetch_attempt>>

fetch_all_subreddits ==
    /\ fetch_pc = "idle"
    /\ fetch_results' = <<>>
    /\ IF target_subreddits = <<>>
       THEN fetch_pc' = "done" /\ UNCHANGED <<fetch_i, fetch_attempt>>
       ELSE fetch_pc' = "calling" /\ fetch_i' = 1 /\ fetch_attempt' = 1
    /\ UNCHANGED <<fetch_yielded, stored_count, fetch_log, fetch_pauses, fetch_signals,
                   posts_table, comments_table, post_stores>>
    /\ UNCHANGED fetch_comments
    /\ UNCHANGED outside_fetch_vars

\* fetch_subreddit_submissions is called: a subreddit the database does not
\* know (or cannot be asked about) gives 0 at once
fetch_subreddit_submissions ==
    /\ fetch_pc = "calling"
    /\ fetch_yielded' = 0
    /\ stored_count' = 0
    /\ \E subreddit_exists \in BOOLEAN :
         IF subreddit_exists
         THEN /\ fetch_pc' = "listing"
              /\ UNCHANGED <<fetch_i, fetch_attempt, fetch_results, fetch_log>>
         ELSE /\ fetch_log' = Append(fetch_log, Attempt("not_found"))
              /\ NextTarget(Recorded(fetch_results, target_subreddits[fetch_i], 0))
    /\ UNCHANGED <<fetch_pauses, fetch_signals, posts_table, comments_table, post_stores>>
    /\ UNCHANGED fetch_comments
    /\ UNCHANGED outside_fetch_vars

\* one turn of "for submission in subreddit.hot(limit=limit)"
listing_yields ==
    /\ fetch_pc = "listing"
    /\ fetch_yielded < MaxListing
    /\ fetch_yielded' = fetch_yielded + 1
    /\ \E submission \in Submissions : \E outcome \in CommentOutcomes :
       \E post_ok, comment_ok \in BOOLEAN :
         LET name == target_subreddits[fetch_i]
             s    == store_submission(posts_table, submission, name, post_ok)
             kept == should_include_submission(submission) /\ s.stored
             asked == FetchesComments(kept)
         IN  /\ ~asked => outcome.kind = "none"
             /\ ~(asked /\ outcome.kind = "comment") => ~comment_ok
             /\ IF kept
                THEN /\ posts_table' = s.table
                     /\ stored_count' = stored_count + 1
                     /\ post_stores' =
                           [post_stores EXCEPT ![submission.id] =
                               [prev |-> @.last, last |-> validate_score(submission.score)]]
                ELSE UNCHANGED <<posts_table, stored_count, post_stores>>
             /\ comments_table' =
                   IF asked
                   THEN fetch_submission_comments(comments_table, submission,
                                                  outcome, comment_ok)
                   ELSE comments_table
             /\ fetch_signals' =
                   IF asked /\ outcome.kind = "TooManyRequests" /\ fetch_attempt = 1
                   THEN fetch_signals \cup {name}
                   ELSE fetch_signals
    /\ UNCHANGED <<fetch_pc, fetch_i, fetch_attempt, fetch_results, fetch_log,
                   fetch_pauses>>
    /\ UNCHANGED fetch_comments
    /\ UNCHANGED outside_fetch_vars

\* the listing is exhausted: fetch_subreddit_submissions returns stored_count
listing_ends ==
    /\ fetch_pc = "listing"
    /\ fetch_log' = Append(fetch_log, Attempt("returned"))
    /\ NextTarget(Recorded(fetch_results, target_subreddits[fetch_i], stored_count))
    /\ UNCHANGED <<fetch_yielded, stored_count, fetch_pauses, fetch_signals,
                   posts_table, comments_table, post_stores>>
    /\ UNCHANGED fetch_comments
    /\ UNCHANGED outside_fetch_vars

\* the listing raises: too-many-requests and server errors are raised on to
\* fetch_all_subreddits, anything else makes fetch_subreddit_submissions
\* return 0
listing_raises(kind) ==
    /\ fetch_pc = "listing"
    /\ fetch_log' = Append(fetch_log, Attempt(kind))
    /\ LET name == target_subreddits[fetch_i] IN
       /\ fetch_signals' =
             IF kind = "TooManyRequests" /\ fetch_attempt = 1
             THEN fetch_signals \cup {name}
             ELSE fetch_signals
       /\ IF kind = "TooManyRequests" /\ fetch_attempt = 1
          THEN /\ fetch_pauses' = Append(fetch_pauses, name)
               /\ fetch_attempt' = 2
               /\ fetch_pc' = "calling"
               /\ UNCHANGED <<fetch_i, fetch_results>>
          ELSE /\ UNCHANGED fetch_pauses
               /\ IF ContinuesAfter(kind)
                  THEN NextTarget(Recorded(fetch_results, name, 0))
                  ELSE /\ fetch_pc' = "done"
                       /\ UNCHANGED <<fetch_i, fetch_attempt, fetch_results>>
    /\ UNCHANGED <<fetch_yielded, stored_count, posts_table, comments_table,
                   post_stores>>
    /\ UNCHANGED fetch_comments
    /\ UNCHANGED outside_fetch_vars

FetchNext ==
    \/ fetch_all_subreddits
    \/ fetch_subreddit_submissions
    \/ listing_yields
    \/ listing_ends
    \/ \E kind \in ListingErrors : listing_raises(kind)

(***************************************************************************)
(* scripts/src/content_processor.py: runs of process_all_unprocessed over  *)
(* the reddit_posts table.  A step is the start of a run, one turn of its  *)
(* while loop (the selection of a batch), one turn of process_batch's loop *)
(* (one post: URL fetch, LLM call, parsing, update) or the end of a batch. *)
(***************************************************************************)
\* the posts of the table, the oldest first (created_utc is the position)
ProcPostIds == SubSeq(<<"1kq0a", "1kq0b", "1kq0c", "1kq0d">>, 1, NumProcPosts)

ProcIds == {ProcPostIds[k] : k \in DOMAIN ProcPostIds}

\* what a post has to analyse: a self post has content, a link post a URL
\* to an article, an image post a URL to an image; the table also allows a
\* row with both content and a URL
PostProfiles ==
    {[content |-> "text", url |-> None], [content |-> None, url |-> "link"],
     [content |-> None, url |-> "image"], [content |-> "text", url |-> "link"]}

\* datetime.now(timezone.utc).isoformat() of this run, and of an earlier one
utc_now == "2025-06-02T06:00:00+00:00"

utc_before == "2025-06-01T06:00:00+00:00"

\* the keywords column: null, or a list of keywords
NullKeywords == [is_null |-> TRUE, list |-> <<>>]

KeywordsOf(list) == [is_null |-> FALSE, list |-> list]

\* the row of a post the processor has not touched
FreshRow(id, created_utc, profile) ==
    [reddit_id |-> id, created_utc |-> created_utc, content |-> profile.content,
     url |-> profile.url, content_processed_at |-> None, summary |-> None,
     content_type |-> None, keywords |-> NullKeywords]

\* the row of a post an earlier run processed
ProcessedRow(id, created_utc, profile) ==
    [FreshRow(id, created_utc, profile) EXCEPT
        !.content_processed_at = utc_before, !.summary = "An earlier summary.",
        !.content_type = "other", !.keywords = KeywordsOf(<<>>)]

\* URLFetcher.is_image_url
is_image_url(url) == url = "image"

\* the tokens a model puts in front of its JSON: the opening of a Markdown
\* code block (three backquotes and the word json), and a known prefix
CodeFence == "[fence]json"

prefixes_to_remove == {"Analysis:"}

\* the JSON values of a keywords entry: none, a list of strings, a string
JsonNull == [type |-> "null", list |-> <<>>]

JsonStrings(list) == [type |-> "list", list |-> list]

JsonString(text) == [type |-> "str", list |-> <<text>>]

\* what json.loads makes of the cleaned text: a JSONDecodeError, or a
\* number, a list or a dict
Undecodable ==
    [type |-> "invalid", items |-> {}, category |-> None, keywords |-> JsonNull]

JsonNumber ==
    [type |-> "number", items |-> {}, category |-> None, keywords |-> JsonNull]

JsonList == [type |-> "list", items |-> {"summary", "category", "keywords"},
             category |-> None, keywords |-> JsonNull]

\* dicts: items are the keys, category is a string or null ("null" stands
\* for a value that is no string), keywords a list or a string
JsonDicts ==
    {[type |-> "dict", items |-> {"summary", "category", "keywords"},
      category |-> c, keywords |-> JsonStrings(<<"AI", "!">>)]
        : c \in {"News", "announcement", "PAPER", "meme", "null"}} \cup
    {[type |-> "dict", items |-> {"summary", "category"},
      category |-> "News", keywords |-> JsonNull],
     [type |-> "dict", items |-> {"summary", "category", "keywords"},
      category |-> "News", keywords |-> JsonString("AI")]}

\* the message whose content is None
NoReply == [kind |-> "none", lead |-> <<>>, body |-> Undecodable, fence_end |-> FALSE]

\* what the chat completion gives: an exception, or a message whose content
\* is None, blank, or a text: the lead tokens, what follows, and whether
\* the text ends with a closing fence
LLMReplies ==
    {[kind |-> k, lead |-> <<>>, body |-> Undecodable, fence_end |-> FALSE]
        : k \in {"raises", "none", "blank"}} \cup
    {[kind |-> "text", lead |-> <<>>, body |-> b, fence_end |-> FALSE]
        : b \in {Undecodable, JsonNumber, JsonList} \cup JsonDicts} \cup
    {[kind |-> "text", lead |-> l, body |-> b, fence_end |-> Head(l) = CodeFence]
        : l \in {<<CodeFence>>, <<"Analysis:">>, <<"Analysis:", CodeFence>>,
                 <<CodeFence, "Analysis:">>},
          b \in {d \in JsonDicts : d.category = "News" /\ d.keywords.type = "list"}}

\* the clean-up of the response text: an opening fence at the very start
\* and a closing fence at the end are cut, then one known prefix
Cleaned(reply) ==
    LET unfenced == IF reply.lead # <<>> /\ Head(reply.lead) = CodeFence
                    THEN Tail(reply.lead) ELSE reply.lead
        bare     == IF unfenced # <<>> /\ Head(unfenced) \in prefixes_to_remove
                    THEN Tail(unfenced) ELSE unfenced
    IN  [lead |-> bare, body |-> reply.body]

\* json.loads: anything left in front of the JSON makes it undecodable
json_loads(text) == IF text.lead = <<>> THEN text.body ELSE Undecodable

\* all(key in result for key in [summary, category, keywords])
HasRequiredKeys(result) ==
    \A key \in {"summary", "category", "keywords"} : key \in result.items

\* the eight categories
valid_categories ==
    {"news", "discussion", "tutorial", "question", "tool", "research", "showcase", "other"}

lower(text) ==
    IF text = "News" THEN "news" ELSE IF text = "PAPER" THEN "paper"
    ELSE IF text = "AI" THEN "ai" ELSE text

\* a category that is only lower-cased
LowerCased(category) == lower(category)

\* _validate_category: category.lower().strip(), then the valid names,
\* the synonyms, and other for the rest
validate_category(category) ==
    IF lower(category) \in valid_categories THEN lower(category)
    ELSE IF lower(category) \in {"announcement", "update"} THEN "news"
    ELSE IF lower(category) \in {"guide", "howto"} THEN "tutorial"
    ELSE IF lower(category) = "help" THEN "question"
    ELSE IF lower(category) \in {"demo", "project"} THEN "showcase"
    ELSE IF lower(category) \in {"paper", "study"} THEN "research"
    ELSE "other"

\* re.sub(r'[^\w\s-]', '', keyword.strip().lower())
clean_keyword(keyword) == IF keyword = "!" THEN "" ELSE lower(keyword)

\* len(clean_keyword) > 1
LongerThanOne(keyword) == keyword \notin {"", "!"}

RECURSIVE CleanKeywords(_)
CleanKeywords(list) ==
    IF list = <<>> THEN <<>>
    ELSE LET kw == clean_keyword(Head(list))
         IN  (IF LongerThanOne(kw) THEN <<kw>> ELSE <<>>) \o CleanKeywords(Tail(list))

\* _process_keywords: a value that is no list gives no keywords
process_keywords(keywords) ==
    IF keywords.type = "list" THEN CleanKeywords(keywords.list) ELSE <<>>

NoData == [summary |-> None, category |-> None, keywords |-> <<>>]

\* a processor that fetches no URL
FetchesNoUrl(post) == FALSE

\* "if self.url_fetcher and url": the URL's content is fetched
FetchesUrl(post) == url_fetcher /\ post.url # None

\* process_single_post: every failure, an exception included, gives None
process_single_post(post, fetched, reply) ==
    IF FetchesUrl(post) /\ ~fetched THEN NoData
    ELSE IF reply.kind \in {"raises", "none", "blank"} THEN NoData
    ELSE LET result == json_loads(Cleaned(reply))
         IN  IF result.type \in {"invalid", "number"} THEN NoData
             ELSE IF ~HasRequiredKeys(result) THEN NoData
             ELSE IF result.type = "list" \/ result.category = "null" THEN NoData
             ELSE [summary |-> "A summary.",
                   category |-> validate_category(result.category),
                   keywords |-> process_keywords(result.keywords)]

\* an update without a filter
MatchesAny(row, reddit_id) == TRUE

\* .eq(reddit_id, reddit_id): the rows an update touches
Matches(row, reddit_id) == row.reddit_id = reddit_id

\* update_post_with_processing: the update of the rows with the reddit_id;
\* a database error leaves the table alone
update_post_with_processing(rows, reddit_id, processed_data, db_ok) ==
    IF db_ok
    THEN [id \in DOMAIN rows |->
            IF Matches(rows[id], reddit_id)
            THEN [rows[id] EXCEPT !.summary = processed_data.summary,
                                  !.content_type = processed_data.category,
                                  !.keywords = KeywordsOf(processed_data.keywords),
                                  !.content_processed_at = utc_now]
            ELSE rows[id]]
    ELSE rows

\* the rows with content_processed_at null, the newest first
RECURSIVE NewestUnprocessed(_, _)
NewestUnprocessed(rows, k) ==
    IF k = 0 THEN <<>>
    ELSE (IF rows[ProcPostIds[k]].content_processed_at = None
          THEN <<rows[ProcPostIds[k]]>> ELSE <<>>)
         \o NewestUnprocessed(rows, k - 1)

FirstOf(seq, limit) == SubSeq(seq, 1, Min(limit, Len(seq)))

\* _is_image_url: without a URL fetcher no URL counts as an image
image_url(url) == url_fetcher /\ is_image_url(url)

Analyzable(post) ==
    post.content # None \/ (post.url # None /\ ~image_url(post.url))

RECURSIVE FilterAnalyzable(_)
FilterAnalyzable(posts) ==
    IF posts = <<>> THEN <<>>
    ELSE (IF Analyzable(Head(posts)) THEN <<Head(posts)>> ELSE <<>>)
         \o FilterAnalyzable(Tail(posts))

\* get_unprocessed_posts: the limit is applied by the query, the posts with
\* nothing to analyse are dropped afterwards; a database error gives []
get_unprocessed_posts(rows, limit, db_ok) ==
    IF db_ok
    THEN FilterAnalyzable(FirstOf(NewestUnprocessed(rows, Len(ProcPostIds)), limit))
    ELSE <<>>

NoPostYet == [reddit_id |-> None, fetched |-> FALSE, llm_called |-> FALSE,
              again |-> FALSE, reply |-> NoReply, db_ok |-> FALSE]

\* stats = {processed: 0, failed: 0, skipped: 0}
NoStats == [processed |-> 0, failed |-> 0, skipped |-> 0]

Counted(stats, key) == [stats EXCEPT ![key] = @ + 1]

\* counters that forget the batches before
LastBatchOnly(total, batch) == batch

\* total_stats[key] += batch_stats[key]
AddStats(total, batch) == [key \in DOMAIN total |-> total[key] + batch[key]]


ProcessReset ==
    /\ \E profile \in [ProcIds -> PostProfiles] : \E done \in SUBSET {ProcPostIds[1]} :
         post_rows = [id \in ProcIds |->
                        LET k == CHOOSE j \in DOMAIN ProcPostIds : ProcPostIds[j] = id
                        IN  IF id \in done THEN ProcessedRow(id, k, profile[id])
                            ELSE FreshRow(id, k, profile[id])]
    /\ proc_pc = "idle"
    /\ proc_runs = 0
    /\ proc_offset = 0
    /\ proc_batch = <<>>
    /\ proc_k = 0
    /\ proc_last = NoPostYet
    /\ proc_failed = {}
    /\ url_fetcher \in BOOLEAN
    /\ batch_stats = NoStats
    /\ total_stats = NoStats
    /\ llm_sent = {}
    /\ other_batch = <<>>

\* the processor with the largest batch size
ProcessInit == ProcessReset /\ batch_size = BatchSize

\* the processor with any batch size
RepeatsInit == ProcessReset /\ batch_size \in 1..BatchSize

\* the processor while another subsystem is observed
ProcessIdle ==
    /\ post_rows = [id \in ProcIds |->
                      FreshRow(id, CHOOSE j \in DOMAIN ProcPostIds : ProcPostIds[j] = id,
                               [content |-> "text", url |-> None])]
    /\ proc_pc = "idle"
    /\ proc_runs = 0
    /\ proc_offset = 0
    /\ proc_batch = <<>>
    /\ proc_k = 0
    /\ proc_last = NoPostYet
    /\ proc_failed = {}
    /\ url_fetcher = TRUE
    /\ batch_stats = NoStats
    /\ total_stats = NoStats
    /\ llm_sent = {}
    /\ other_batch = <<>>
    /\ batch_size = BatchSize

\* a run begins: offset = 0 and the counters are zero
process_all_unprocessed ==
    /\ proc_pc = "idle"
    /\ proc_runs < MaxProcRuns
    /\ proc_runs' = proc_runs + 1
    /\ proc_offset' = 0
    /\ proc_pc' = "loop"
    /\ total_stats' = NoStats
    /\ llm_sent' = {}
    /\ UNCHANGED <<post_rows, proc_batch, proc_k, proc_last, proc_failed, url_fetcher,
                   batch_stats, other_batch>>
    /\ UNCHANGED batch_size
    /\ UNCHANGED outside_proc_vars

\* one turn of "while offset < limit": the next batch is selected; the run
\* ends when there is none
select_batch ==
    /\ proc_pc = "loop"
    /\ IF proc_offset < RunLimit
       THEN \E db_ok \in BOOLEAN :
              LET posts == get_unprocessed_posts(
                               post_rows, Min(batch_size, RunLimit - proc_offset), db_ok)
              IN  IF posts = <<>>
                  THEN proc_pc' = "idle" /\ UNCHANGED <<proc_batch, proc_k>>
                  ELSE proc_pc' = "batch" /\ proc_batch' = posts /\ proc_k' = 1
       ELSE proc_pc' = "idle" /\ UNCHANGED <<proc_batch, proc_k>>
    /\ UNCHANGED batch_size
    /\ UNCHANGED <<post_rows, proc_runs, proc_offset, proc_last, proc_failed,
                   url_fetcher, batch_stats, total_stats, llm_sent, other_batch>>
    /\ UNCHANGED outside_proc_vars

\* one turn of process_batch's loop; the posts of a batch were selected as
\* unprocessed, and the test for a processed post looks at the selected
\* post, not at the table
process_batch ==
    /\ proc_pc = "batch"
    /\ proc_k <= Len(proc_batch)
    /\ \E fetched, db_ok \in BOOLEAN : \E reply \in LLMReplies :
         LET post == proc_batch[proc_k]
             skipped == post.content_processed_at # None
             llm_called == ~skipped /\ ~(FetchesUrl(post) /\ ~fetched)
             processed_data == process_single_post(post, fetched, reply)
             updated == ~skipped /\ processed_data # NoData /\ db_ok
         IN  \* no URL or no fetcher, no fetch, and nothing is fetched from an
             \* image URL; no LLM call, no reply; no data, no update
             /\ (~FetchesUrl(post) \/ is_image_url(post.url) \/ skipped) => ~fetched
             /\ ~llm_called => reply = NoReply
             /\ (skipped \/ processed_data = NoData) => ~db_ok
             /\ post_rows' =
                   IF ~skipped /\ processed_data # NoData
                   THEN update_post_with_processing(post_rows, post.reddit_id,
                                                    processed_data, db_ok)
                   ELSE post_rows
             /\ proc_last' = [reddit_id |-> post.reddit_id, fetched |-> fetched,
                              llm_called |-> llm_called,
                              again |-> llm_called /\ post.reddit_id \in llm_sent,
                              reply |-> reply, db_ok |-> db_ok]
             /\ proc_failed' = IF skipped THEN proc_failed
                               ELSE IF updated THEN proc_failed \ {post.reddit_id}
                               ELSE proc_failed \cup {post.reddit_id}
             /\ batch_stats' = Counted(batch_stats,
                                       IF skipped THEN "skipped"
                                       ELSE IF updated THEN "processed" ELSE "failed")
             /\ llm_sent' = IF llm_called THEN llm_sent \cup {post.reddit_id}
                            ELSE llm_sent
    /\ proc_k' = proc_k + 1
    /\ UNCHANGED <<proc_pc, proc_runs, proc_offset, proc_batch, url_fetcher,
                   total_stats, other_batch>>
    /\ UNCHANGED batch_size
    /\ UNCHANGED outside_proc_vars

\* a turn of the loop whose query for unprocessed posts does not raise
select_batch_answered ==
    /\ select_batch
    /\ proc_offset < RunLimit =>
          LET posts == get_unprocessed_posts(
                           post_rows, Min(batch_size, RunLimit - proc_offset), TRUE)
          IN  IF posts = <<>> THEN proc_pc' = "idle"
              ELSE proc_pc' = "batch" /\ proc_batch' = posts

\* process_batch has returned: the counters are added up and
\* offset += len(posts); a batch shorter than batch_size was the last one
batch_completed ==
    /\ proc_pc = "batch"
    /\ proc_k > Len(proc_batch)
    /\ total_stats' = AddStats(total_stats, batch_stats)
    /\ batch_stats' = NoStats
    /\ proc_offset' = proc_offset + Len(proc_batch)
    /\ proc_pc' = IF Len(proc_batch) < batch_size THEN "idle" ELSE "loop"
    /\ UNCHANGED <<post_rows, proc_runs, proc_batch, proc_k, proc_last, proc_failed,
                   url_fetcher, llm_sent, other_batch>>
    /\ UNCHANGED batch_size
    /\ UNCHANGED outside_proc_vars

\* another run of the processor on the same database selects its batch
other_run_selects ==
    /\ other_batch = <<>>
    /\ other_batch' = get_unprocessed_posts(post_rows, Min(batch_size, RunLimit), TRUE)
    /\ other_batch' # <<>>
    /\ UNCHANGED <<post_rows, proc_pc, proc_runs, proc_offset, proc_batch, proc_k,
                   proc_last, proc_failed, url_fetcher, batch_stats, total_stats,
                   llm_sent>>
    /\ UNCHANGED batch_size
    /\ UNCHANGED outside_proc_vars

\* the other run handles the next post of its batch: it fails, or it
\* updates the row
other_run_processes ==
    /\ other_batch # <<>>
    /\ other_batch' = Tail(other_batch)
    /\ \E reply \in {r \in LLMReplies : r.lead = <<>>} : \E db_ok \in BOOLEAN :
         LET post == Head(other_batch)
             processed_data == process_single_post(post, TRUE, reply)
         IN  post_rows' =
                IF processed_data # NoData
                THEN update_post_with_processing(post_rows, post.reddit_id,
                                                 processed_data, db_ok)
                ELSE post_rows
    /\ UNCHANGED <<proc_pc, proc_runs, proc_offset, proc_batch, proc_k, proc_last,
                   proc_failed, url_fetcher, batch_stats, total_stats, llm_sent>>
    /\ UNCHANGED batch_size
    /\ UNCHANGED outside_proc_vars

\* a run after the counted ones: the script is started again and again
process_all_unprocessed_again ==
    /\ proc_pc = "idle"
    /\ proc_runs = MaxProcRuns
    /\ proc_offset' = 0
    /\ proc_pc' = "loop"
    /\ total_stats' = NoStats
    /\ llm_sent' = {}
    /\ UNCHANGED <<post_rows, proc_runs, proc_batch, proc_k, proc_last, proc_failed,
                   url_fetcher, batch_stats, other_batch, batch_size>>
    /\ UNCHANGED outside_proc_vars

ProcessNext ==
    \/ process_all_unprocessed
    \/ select_batch
    \/ process_batch
    \/ batch_completed

\* the processor is run over and over
RepeatsNext ==
    \/ ProcessNext
    \/ process_all_unprocessed_again

\* two runs of the processor overlap: this run and another one
OverlapNext ==
    \/ ProcessNext
    \/ other_run_selects
    \/ other_run_processes

(***************************************************************************)
(* scripts/src/reddit_fetcher.py: fetch_submission_comments over the       *)
(* comment forest of one stored submission.  The forest is a chain of      *)
(* replies below the first top-level comment and a second top-level        *)
(* comment without replies.  One step is the whole call.                   *)
(***************************************************************************)
\* the submission whose comments are fetched
CommentedSubmission == "abc123"

\* the chain: a top-level comment, its reply, the reply to that reply, ...
ChainIds ==
    SubSeq(<<"m5k0", "m5k1", "m5k2", "m5k3", "m5k4", "m5k5", "m5k6", "m5k7",
             "m5k8", "m5k9", "m5ka", "m5kb", "m5kc", "m5kd">>, 1, MaxNesting + 1)

\* the second top-level comment
SiblingId == "m5kz"

CommentIds == {ChainIds[k] : k \in DOMAIN ChainIds} \cup {SiblingId}

\* submission.comments
TopLevel == <<ChainIds[1], SiblingId>>

\* comment.replies
RepliesOf(id) ==
    IF \E k \in 1..(Len(ChainIds) - 1) : ChainIds[k] = id
    THEN <<ChainIds[(CHOOSE k \in 1..(Len(ChainIds) - 1) : ChainIds[k] = id) + 1]>>
    ELSE <<>>

\* how many replies-to lead from a comment up to its top-level comment
NestingOf(id) ==
    IF id = SiblingId THEN 0
    ELSE (CHOOSE k \in DOMAIN ChainIds : ChainIds[k] = id) - 1

\* what a comment of the forest can be: one the filter lets through, or one
\* it turns down
Informative == [body |-> DetailedBody, score |-> 8]

TurnedDown == [body |-> Body(<<"y", "e", "s">>), score |-> 10]

CommentProfiles == {Informative, TurnedDown}

\* the forests a fetch meets: at most one comment is one the filter turns
\* down
Forests ==
    {[id \in CommentIds |-> IF id \in down THEN TurnedDown ELSE Informative] :
        down \in {{}} \cup {{id} : id \in CommentIds}}

CommentAt(id) ==
    [id |-> id, score |-> comment_forest[id].score, body |-> comment_forest[id].body]

\* the calls that fail during one fetch: no call, or one upsert, or one
\* replace_more
NoFailure == [stores |-> {}, replies |-> {}]

Failures ==
    {NoFailure} \cup
    {[stores |-> {id}, replies |-> {}] : id \in CommentIds} \cup
    {[stores |-> {}, replies |-> {id}] : id \in CommentIds \cup {CommentedSubmission}}

RepliesInit ==
    /\ max_comment_depth \in 0..MaxCommentDepth
    /\ max_comments_per_post \in 1..MaxCommentsPerPost
    /\ comment_forest \in Forests
    /\ failing_stores = {}
    /\ failing_replies = {}
    /\ comment_rows = {}
    /\ replies_pc = "start"

\* the comment fetch while another subsystem is observed
RepliesIdle ==
    /\ max_comment_depth = 2
    /\ max_comments_per_post = MaxCommentsPerPost
    /\ comment_forest = [id \in CommentIds |-> [body |-> DetailedBody, score |-> 8]]
    /\ failing_stores = {}
    /\ failing_replies = {}
    /\ comment_rows = {}
    /\ replies_pc = "start"

\* a descent that hands on the depth it was given
SameDepth(depth) == depth

\* "depth + 1": the depth handed to the call that descends
NextDepth(depth) == depth + 1

\* _fetch_comment_replies, and the turns of its loop from reply k on
RECURSIVE fetch_comment_replies(_, _, _, _)
RECURSIVE for_reply_in_replies(_, _, _, _, _)
for_reply_in_replies(rows, parent_comment, k, depth, failing) ==
    IF k > Len(RepliesOf(parent_comment.id)) THEN rows
    ELSE LET reply == CommentAt(RepliesOf(parent_comment.id)[k])
             s     == store_comment(rows, reply, CommentedSubmission, parent_comment.id,
                                    depth, reply.id \notin failing.stores)
             after == IF should_include_comment(reply) /\ s.stored
                      THEN IF depth + 1 < max_comment_depth
                           THEN fetch_comment_replies(s.table, reply, NextDepth(depth),
                                                      failing)
                           ELSE s.table
                      ELSE rows
         IN  for_reply_in_replies(after, parent_comment, k + 1, depth, failing)

fetch_comment_replies(rows, parent_comment, depth, failing) ==
    IF depth >= max_comment_depth THEN rows
    ELSE IF parent_comment.id \in failing.replies THEN rows
    ELSE for_reply_in_replies(rows, parent_comment, 1, depth, failing)

\* "for comment in submission.comments" from comment k on
RECURSIVE for_comment_in_comments(_, _, _, _)
for_comment_in_comments(rows, k, comments_processed, failing) ==
    IF k > Len(TopLevel) \/ comments_processed >= max_comments_per_post THEN rows
    ELSE LET comment == CommentAt(TopLevel[k])
             s       == store_comment(rows, comment, CommentedSubmission, None, 0,
                                      comment.id \notin failing.stores)
         IN  IF should_include_comment(comment) /\ s.stored
             THEN for_comment_in_comments(
                      IF max_comment_depth > 0
                      THEN fetch_comment_replies(s.table, comment, 1, failing)
                      ELSE s.table,
                      k + 1, comments_processed + 1, failing)
             ELSE for_comment_in_comments(rows, k + 1, comments_processed, failing)

\* fetch_submission_comments with comment fetching enabled: an exception of
\* submission.comments.replace_more ends the call with nothing stored
fetch_comments_of_submission ==
    /\ replies_pc = "start"
    /\ replies_pc' = "done"
    /\ \E failing \in Failures :
         /\ failing_stores' = failing.stores
         /\ failing_replies' = failing.replies
         /\ comment_rows' =
              IF CommentedSubmission \in failing.replies THEN comment_rows
              ELSE for_comment_in_comments(comment_rows, 1, 0, failing)
    /\ UNCHANGED <<max_comment_depth, max_comments_per_post, comment_forest>>
    /\ UNCHANGED outside_replies_vars

RepliesNext == fetch_comments_of_submission

(***************************************************************************)
(* scripts/src/reddit_fetcher.py: the comment filter on its own.  The      *)
(* filter is asked about one comment, as scripts/tests/test_comments.py    *)
(* does with its mock comments.                                            *)
(***************************************************************************)
\* the bodies the filter is asked about
FilterBodies ==
    {NoBody, DeletedBody, RemovedBody, DetailedBody, Body(<<>>),
     Body(<<"y", "e", "s">>),
     Body(<<" ", "Y", "E", "S", " ">>),
     Body(<<"S", "h", "o", "r", "t">>),
     Body(<<"T", "h", "a", "n", "k", "s">>),
     Body(<<"l", "o", "l">>),
     Body(<<"n", "i", "n", "e", " ", "c", "h", "a", "r">>),
     Body(<<"t", "e", "n", " ", "c", "h", "a", "r", "s", "!">>),
     Body(<<" ", " ", "S", "h", "o", "r", "t", " ", " ", " ", " ">>),
     Body(<<" ", "[", "d", "e", "l", "e", "t", "e", "d", "]", " ">>),
     Body(<<" ", " ", " ", " ", " ", " ", " ", " ", " ", " ">>),
     Body(<<"L", "o", "w", " ", "q", "u", "a", "l", "i", "t", "y", " ",
            "c", "o", "m", "m", "e", "n", "t">>)}

\* the scores the filter is asked about
FilterScores == {1, 2, 5, 8, 10, 15}

FilterInit ==
    /\ filter_comment \in [body : FilterBodies, score : FilterScores]
    /\ filter_pc = "asked"
    /\ filter_answer = FALSE

\* the filter while another subsystem is observed
FilterIdle ==
    /\ filter_comment = [body |-> DetailedBody, score |-> 8]
    /\ filter_pc = "asked"
    /\ filter_answer = FALSE

\* "result = fetcher._should_include_comment(comment)"
test_comment_filtering ==
    /\ filter_pc = "asked"
    /\ filter_answer' = should_include_comment(filter_comment)
    /\ filter_pc' = "answered"
    /\ UNCHANGED filter_comment
    /\ UNCHANGED outside_filter_vars

FilterNext == test_comment_filtering

(***************************************************************************)
(* The configuration loaders: scripts/src/config/config_models.py (fetch   *)
(* and process path), scripts/src/twitter_client.py (Twitter) and          *)
(* tgbot/models/config.py (Telegram bot).  A variable that is unset and a  *)
(* variable set to the empty string are the same to all three.             *)
(***************************************************************************)
\* the variables load_config_from_env requires, in the order it tests them
RedditRequired ==
    <<"REDDIT_CLIENT_ID", "REDDIT_CLIENT_SECRET", "REDDIT_USERNAME",
      "REDDIT_PASSWORD", "SUPABASE_URL", "SUPABASE_ANON_KEY">>

\* the variables load_twitter_config_from_env requires
TwitterRequired ==
    <<"TWITTER_BEARER_TOKEN", "TWITTER_CONSUMER_KEY", "TWITTER_CONSUMER_SECRET",
      "TWITTER_ACCESS_TOKEN", "TWITTER_ACCESS_TOKEN_SECRET">>

\* the variables load_bot_config requires
BotRequired ==
    <<"TELEGRAM_BOT_TOKEN", "SUPABASE_URL", "SUPABASE_KEY", "FIREWORKS_API_KEY">>

Names(required) == {required[i] : i \in DOMAIN required}

EnvironmentVariables ==
    Names(RedditRequired) \cup Names(TwitterRequired) \cup Names(BotRequired)

\* "if not config.x: missing.append(name)", one test after the other
Missing(required, env) ==
    LET IsMissing(name) == name \notin env
    IN  SelectSeq(required, IsMissing)

\* a loader that returned its configuration
Loaded(loader) == [loader |-> loader, kind |-> "config", named |-> <<>>]

\* a loader that raised: the kind of the exception and the variables its
\* message names
Raised(loader, kind, named) == [loader |-> loader, kind |-> kind, named |-> named]

NotLoaded == [loader |-> None, kind |-> None, named |-> <<>>]

ConfigInit ==
    /\ environ \in SUBSET EnvironmentVariables
    /\ config_pc = "start"
    /\ config_outcome = NotLoaded

\* the loaders while another subsystem is observed
ConfigIdle ==
    /\ environ = EnvironmentVariables
    /\ config_pc = "start"
    /\ config_outcome = NotLoaded

\* load_config_from_env: the missing variables are collected before the
\* error is raised; with all of them set the database is probed
load_config_from_env ==
    /\ config_pc = "start"
    /\ config_pc' = "loaded"
    /\ LET missing == Missing(RedditRequired, environ)
       IN  IF missing # <<>>
           THEN config_outcome' = Raised("reddit", "ValueError", missing)
           ELSE \E connected \in BOOLEAN :
                  config_outcome' = IF connected THEN Loaded("reddit")
                                    ELSE Raised("reddit", "ConnectionError", <<>>)
    /\ UNCHANGED environ
    /\ UNCHANGED outside_config_vars

\* load_twitter_config_from_env
load_twitter_config_from_env ==
    /\ config_pc = "start"
    /\ config_pc' = "loaded"
    /\ LET missing == Missing(TwitterRequired, environ)
       IN  config_outcome' = IF missing # <<>>
                             THEN Raised("twitter", "ValueError", missing)
                             ELSE Loaded("twitter")
    /\ UNCHANGED environ
    /\ UNCHANGED outside_config_vars

\* load_bot_config: each group of variables is tested where it is read and
\* the first test that fails raises; the list of admin chats, which is not
\* required, is parsed between the first and the second test
load_bot_config ==
    /\ config_pc = "start"
    /\ config_pc' = "loaded"
    /\ \E admin_chat_ids_ok \in BOOLEAN :
         /\ "TELEGRAM_BOT_TOKEN" \notin environ => admin_chat_ids_ok
         /\ config_outcome' =
              IF "TELEGRAM_BOT_TOKEN" \notin environ
              THEN Raised("bot", "ValueError", <<"TELEGRAM_BOT_TOKEN">>)
              ELSE IF ~admin_chat_ids_ok
              THEN Raised("bot", "ValueError", <<"TELEGRAM_ADMIN_CHAT_IDS">>)
              ELSE IF "SUPABASE_URL" \notin environ \/ "SUPABASE_KEY" \notin environ
              THEN Raised("bot", "ValueError", <<"SUPABASE_URL", "SUPABASE_KEY">>)
              ELSE IF "FIREWORKS_API_KEY" \notin environ
              THEN Raised("bot", "ValueError", <<"FIREWORKS_API_KEY">>)
              ELSE Loaded("bot")
    /\ UNCHANGED environ
    /\ UNCHANGED outside_config_vars

ConfigNext ==
    \/ load_config_from_env
    \/ load_twitter_config_from_env
    \/ load_bot_config

(***************************************************************************)
(* The table reddit_posts between its writers: the fetcher stores a        *)
(* submission again (scripts/src/reddit_fetcher.py: store_submission), the *)
(* processor writes its enrichment (content_processor.py:                  *)
(* update_post_with_processing), the Twitter poster marks a post           *)
(* (twitter_poster.py: mark_post_as_tweeted); the bot reads the posts of a *)
(* digest (tgbot/database.py: get_posts_for_digest)                        *)
(***************************************************************************)
MaxHours == 1          \* hours the wall clock advances

\* generate_daily_digest asks for days_back=1
days_back == 1

\* get_posts_by_category asks get_posts_for_digest for limit=100 posts
DigestQueryLimit == 100

\* processing_status is read by the bot and written by no component: a row
\* holds what the database gives the column, which the code does not say
ProcessingStatuses == {None, "pending", "processed"}

\* what the listing says about a stored submission when it is fetched
\* again: the score moves, created_utc is the submission's own
ListedAgain(row) ==
    {[id |-> row.reddit_id, score |-> score, selftext |-> row.content,
      created_utc |-> row.created_utc] : score \in {min_score - 1, 300}}

\* submission_data: the columns store_submission writes (title, url,
\* num_comments, upvote_ratio, author, the flags, permalink and thumbnail
\* are read from the submission in the same way)
submission_data(submission) ==
    [reddit_id |-> submission.id,
     content |-> submission.selftext,
     score |-> validate_score(submission.score),
     created_utc |-> submission.created_utc]

\* a row as the database inserts it for the data of a new submission: the
\* columns the data does not name get their defaults
InsertedRow(data, status) ==
    [reddit_id |-> data.reddit_id, content |-> data.content, score |-> data.score,
     created_utc |-> data.created_utc, summary |-> None, content_type |-> None,
     keywords |-> NullKeywords, content_processed_at |-> None,
     twitter_sent |-> FALSE, twitter_sent_at |-> None,
     processing_status |-> status]

\* an upsert that writes the whole row anew
ReplacedRows(db, data) ==
    [p \in DOMAIN db |->
        IF db[p].reddit_id = data.reddit_id
        THEN InsertedRow(data, db[p].processing_status)
        ELSE db[p]]

\* table(reddit_posts).upsert(data) on a stored reddit_id: the columns of
\* the data are written, the other columns of the row keep their values
upsert_stored(db, data) ==
    [p \in DOMAIN db |->
        IF db[p].reddit_id = data.reddit_id
        THEN [column \in DOMAIN db[p] |->
                IF column \in DOMAIN data THEN data[column] ELSE db[p][column]]
        ELSE db[p]]

\* what the processor writes for a post: summary, category and keywords
EnrichmentData ==
    {[summary |-> "summary", category |-> "news", keywords |-> <<"ai">>]}

\* the filters of get_posts_for_digest
DigestEligible(row, t) ==
    /\ row.processing_status = "processed"
    /\ row.summary # None
    /\ row.created_utc >= t - 24 * days_back
    /\ row.created_utc <= t

\* get_posts_for_digest: the eligible posts, highest score first, at most
\* limit of them (a tie on score at the limit is broken by the database)
get_posts_for_digest(db, t, limit) ==
    LET eligible == {p \in DOMAIN db : DigestEligible(db[p], t)}
    IN  {p \in eligible :
            Cardinality({q \in eligible : db[q].score > db[p].score}) < limit}

NoWrite == [name |-> "none", reddit_id |-> 0, written |-> FALSE]

\* the posts were stored by an earlier fetch; nothing else has touched them
TableInit ==
    /\ \E status \in ProcessingStatuses :
         \E listed \in [PostIds -> {[score |-> score, created_utc |-> created_utc] :
                                       score \in {min_score - 1, 300},
                                       created_utc \in {Now0 - 25, Now0 - 24, Now0}}] :
           post_table = [p \in PostIds |->
                           InsertedRow(submission_data(
                               [id |-> p, score |-> listed[p].score, selftext |-> "text",
                                created_utc |-> listed[p].created_utc]), status)]
    /\ wall_clock = Now0
    /\ table_op = NoWrite

\* the table while another subsystem is observed
TableIdle ==
    /\ post_table = [p \in PostIds |->
                       InsertedRow(submission_data(
                           [id |-> p, score |-> 300, selftext |-> "text",
                            created_utc |-> Now0]), None)]
    /\ wall_clock = Now0
    /\ table_op = NoWrite

\* the fetcher finds a stored submission in a listing again and stores it
store_submission_again ==
    /\ \E p \in PostIds : \E submission \in ListedAgain(post_table[p]) :
         \E db_ok \in BOOLEAN :
           /\ post_table' = IF db_ok
                            THEN upsert_stored(post_table, submission_data(submission))
                            ELSE post_table
           /\ table_op' = [name |-> "store_submission", reddit_id |-> p,
                           written |-> db_ok]
    /\ UNCHANGED wall_clock
    /\ UNCHANGED outside_table_vars

\* the processor has a parsed reply for an unprocessed post and writes it
processor_updates_post ==
    /\ \E p \in PostIds : \E processed_data \in EnrichmentData :
         \E db_ok \in BOOLEAN :
           /\ post_table[p].content_processed_at = None
           /\ post_table' = update_post_with_processing(post_table, p,
                                                        processed_data, db_ok)
           /\ table_op' = [name |-> "update_post_with_processing", reddit_id |-> p,
                           written |-> db_ok]
    /\ UNCHANGED wall_clock
    /\ UNCHANGED outside_table_vars

\* the poster has posted the whole thread of the post its query gave and
\* marks the post
poster_marks_post ==
    /\ \E posts \in get_posts_to_tweet(post_table, wall_clock) : \E ok \in BOOLEAN :
         /\ posts # <<>>
         /\ post_table' = mark_post_as_tweeted(post_table, posts[1], wall_clock, ok)
         /\ table_op' = [name |-> "mark_post_as_tweeted", reddit_id |-> posts[1],
                         written |-> ok]
    /\ UNCHANGED wall_clock
    /\ UNCHANGED outside_table_vars

HourPasses ==
    /\ wall_clock < Now0 + MaxHours
    /\ wall_clock' = wall_clock + 1
    /\ UNCHANGED <<post_table, table_op>>
    /\ UNCHANGED outside_table_vars

TableNext ==
    \/ store_submission_again
    \/ processor_updates_post
    \/ poster_marks_post
    \/ HourPasses

(***************************************************************************)
(* Specifications                                                          *)
(***************************************************************************)
\* the Twitter poster runs, everything else is left as constructed
TwitterStart == TwitterInit /\ BotIdle /\ WalkIdle /\ ChatIdle /\ FetchIdle /\ ProcessIdle
    /\ RepliesIdle /\ FilterIdle /\ ConfigIdle /\ TableIdle

SpecTwitter == TwitterStart /\ [][TwitterNext]_vars

\* the bot's digest tasks run, everything else is left as constructed
DigestStart == BotInit /\ TwitterIdle /\ WalkIdle /\ ChatIdle /\ FetchIdle /\ ProcessIdle
    /\ RepliesIdle /\ FilterIdle /\ ConfigIdle /\ TableIdle

SpecDigest == DigestStart /\ [][DigestNext]_vars

\* the digest selection is applied to every query answer and overall cap
WalkStart == WalkInit /\ TwitterIdle /\ BotIdle /\ ChatIdle /\ FetchIdle /\ ProcessIdle
    /\ RepliesIdle /\ FilterIdle /\ ConfigIdle /\ TableIdle

SpecWalk == WalkStart /\ [][WalkNext]_vars

\* the bot's interactive handlers run, everything else is left as constructed
ChatStart == ChatInit /\ TwitterIdle /\ BotIdle /\ WalkIdle /\ FetchIdle /\ ProcessIdle
    /\ RepliesIdle /\ FilterIdle /\ ConfigIdle /\ TableIdle

SpecChat == ChatStart /\ [][ChatNext]_vars

\* the Reddit fetcher runs, everything else is left as constructed
FetchStart == FetchInit /\ TwitterIdle /\ BotIdle /\ WalkIdle /\ ChatIdle /\ ProcessIdle
    /\ RepliesIdle /\ FilterIdle /\ ConfigIdle /\ TableIdle

SpecFetch == FetchStart /\ [][FetchNext]_vars

\* the fetcher is a script that runs on once started: no step that can be
\* taken is put off forever
SpecFetchRuns == FetchStart /\ [][FetchNext]_vars /\ WF_vars(FetchNext)

\* the content processor runs, everything else is left as constructed
ProcessStart ==
    ProcessInit /\ TwitterIdle /\ BotIdle /\ WalkIdle /\ ChatIdle /\ FetchIdle
    /\ RepliesIdle /\ FilterIdle /\ ConfigIdle /\ TableIdle

SpecProcess == ProcessStart /\ [][ProcessNext]_vars

\* a started run of the processor runs on: no step that can be taken is put
\* off forever
SpecProcessRuns == ProcessStart /\ [][ProcessNext]_vars /\ WF_vars(ProcessNext)

\* the processor is run again and again with any batch size: no step that
\* can be taken is put off forever, and the query for unprocessed posts does
\* not raise forever
RepeatsStart ==
    RepeatsInit /\ TwitterIdle /\ BotIdle /\ WalkIdle /\ ChatIdle /\ FetchIdle
    /\ RepliesIdle /\ FilterIdle /\ ConfigIdle /\ TableIdle

SpecProcessRepeats ==
    RepeatsStart /\ [][RepeatsNext]_vars /\ WF_vars(RepeatsNext)
        /\ SF_vars(select_batch_answered)

\* two runs of the content processor overlap on a table of unprocessed self
\* posts
OverlapStart ==
    ProcessIdle /\ TwitterIdle /\ BotIdle /\ WalkIdle /\ ChatIdle /\ FetchIdle
    /\ RepliesIdle /\ FilterIdle /\ ConfigIdle /\ TableIdle

SpecOverlap == OverlapStart /\ [][OverlapNext]_vars

\* the comments of one submission are fetched
RepliesStart ==
    RepliesInit /\ TwitterIdle /\ BotIdle /\ WalkIdle /\ ChatIdle /\ FetchIdle
    /\ ProcessIdle /\ FilterIdle /\ ConfigIdle /\ TableIdle

SpecReplies == RepliesStart /\ [][RepliesNext]_vars

\* the comment filter is asked about one comment
FilterStart ==
    FilterInit /\ TwitterIdle /\ BotIdle /\ WalkIdle /\ ChatIdle /\ FetchIdle
    /\ ProcessIdle /\ RepliesIdle /\ ConfigIdle /\ TableIdle

SpecFilter == FilterStart /\ [][FilterNext]_vars

\* one of the configuration loaders runs in some environment
ConfigStart ==
    ConfigInit /\ TwitterIdle /\ BotIdle /\ WalkIdle /\ ChatIdle /\ FetchIdle
    /\ ProcessIdle /\ RepliesIdle /\ FilterIdle /\ TableIdle

SpecConfig == ConfigStart /\ [][ConfigNext]_vars

\* the writers of reddit_posts take turns on stored posts
TableStart ==
    TableInit /\ TwitterIdle /\ BotIdle /\ WalkIdle /\ ChatIdle /\ FetchIdle
    /\ ProcessIdle /\ RepliesIdle /\ FilterIdle /\ ConfigIdle

SpecTable == TableStart /\ [][TableNext]_vars

(***************************************************************************)
(* Claims about the Twitter poster (checked under SpecTwitter)             *)
(***************************************************************************)
TweetsFor(p, tl) == {i \in 1..Len(tl) : tl[i].post = p}

\* cycle c published every tweet of a thread for post p
CompleteThreadPosted(p, c) ==
    \E n \in 1..(MaxLLMTweets + 1) :
       \A k \in 1..n :
          \E i \in 1..Len(timeline) :
             /\ timeline[i].post = p /\ timeline[i].cycle = c
             /\ timeline[i].of = n /\ timeline[i].text = k

\* C1: twitter_sent becomes true only in the step of post_tweet_for_reddit_post
\* that follows a post_thread call which returned a non-null id for every
\* tweet of the thread; when some tweet of the thread failed the row is left
\* unchanged (twitter_sent false) and still meets the tweet criteria.
C1_MarkedOnlyAfterCompleteThread ==
    [][ /\ \A p \in PostIds :
             (~reddit_posts[p].twitter_sent /\ reddit_posts'[p].twitter_sent)
                => /\ tw_pc = "mark"
                   /\ posts_to_tweet = <<p>>
                   /\ Len(tweet_ids) = Len(thread)
                   /\ \A k \in 1..Len(thread) : tweet_ids[k] # None
        /\ (/\ tw_pc = "mark" /\ tw_pc' = "idle"
            /\ \E k \in 1..Len(tweet_ids) : tweet_ids[k] = None)
              => LET row == reddit_posts'[posts_to_tweet[1]] IN
                 /\ reddit_posts' = reddit_posts
                 /\ row.twitter_sent = FALSE
                 /\ row.created_utc >= now' - hours_back
                 /\ row.score >= min_score
                 /\ row.summary # None
      ]_vars

\* C1 witness: the second of three tweets failed, the cycle has ended and the
\* post is still unmarked
C1_Witness ==
    /\ tw_pc = "idle"
    /\ Len(thread) = 3
    /\ Len(tweet_ids) = 2 /\ tweet_ids[1] # None /\ tweet_ids[2] = None
    /\ results.failed = 1
    /\ ~reddit_posts[posts_to_tweet[1]].twitter_sent

\* C2 as claimed: once a cycle has published every tweet of a post's thread,
\* no later cycle publishes a tweet for that post.
C2_NoTweetAfterCompleteThread ==
    \A p \in PostIds : \A c1 \in 1..MaxCycles :
       CompleteThreadPosted(p, c1)
          => \A i \in 1..Len(timeline) :
                timeline[i].post = p => timeline[i].cycle <= c1

\* C2 amended: once a post is marked as tweeted (twitter_sent = true) no later
\* step publishes a tweet for it.
C2_NoTweetAfterMarked ==
    [][ \A p \in PostIds :
           reddit_posts[p].twitter_sent
              => TweetsFor(p, timeline') = TweetsFor(p, timeline) ]_vars

\* C2 witness: a post was marked in an earlier cycle and a later cycle has
\* published a thread for another post
C2_Witness ==
    \E p \in PostIds : \E i, j \in 1..Len(timeline) :
       /\ reddit_posts[p].twitter_sent
       /\ timeline[i].post = p
       /\ timeline[j].post # p
       /\ timeline[j].cycle > timeline[i].cycle

\* C3: post_thread stops at the first failed tweet: while the loop runs every
\* id obtained so far is non-null, and when it has returned the list holds one
\* entry per tweet attempted, non-null ids in thread order followed by a single
\* None exactly when a tweet failed; with no failure it holds one non-null id
\* per tweet of the thread.
C3_ThreadStopsAtFirstFailure ==
    /\ tw_pc = "post_thread" =>
          /\ attempts = Len(tweet_ids)
          /\ \A k \in 1..Len(tweet_ids) : tweet_ids[k] # None
    /\ tw_pc = "mark" =>
          LET n == Len(tweet_ids) IN
          /\ n >= 1 /\ n <= Len(thread)
          /\ attempts = n
          /\ \A k \in 1..(n - 1) : tweet_ids[k] # None
          /\ tweet_ids[n] = None \/ n = Len(thread)
          /\ \A k \in 1..n : tweet_ids[k] # None =>
                \E i \in 1..Len(timeline) :
                   /\ timeline[i].id = tweet_ids[k]
                   /\ timeline[i].text = thread[k]
                   /\ timeline[i].cycle = cycle
          /\ Cardinality({i \in 1..Len(timeline) : timeline[i].cycle = cycle})
                = Cardinality({k \in 1..n : tweet_ids[k] # None})

\* C3 witness: a thread of three tweets whose second tweet failed
C3_Witness ==
    /\ tw_pc = "mark"
    /\ Len(thread) = 3
    /\ Len(tweet_ids) = 2 /\ tweet_ids[1] # None /\ tweet_ids[2] = None

\* C4 as claimed: the query returns at most one post, and that post has
\* score >= min_score, is at most hours_back old, is not marked, has a
\* NON-EMPTY summary, and no post meeting these conditions scores higher.
C4_SelectedHasNonEmptySummary ==
    /\ Len(posts_to_tweet) <= 1
    /\ tw_pc = "generate" =>
          /\ Len(posts_to_tweet) = 1
          /\ reddit_posts[posts_to_tweet[1]].summary \notin {None, ""}

\* C4 (what the query does guarantee): as claimed, with "non-empty summary"
\* weakened to "summary that is not null" (an empty string passes the filter).
C4_SelectedMeetsCriteria ==
    /\ Len(posts_to_tweet) <= 1
    /\ tw_pc = "generate" =>
          /\ Len(posts_to_tweet) = 1
          /\ LET Ok(q) == /\ reddit_posts[q].score >= min_score
                          /\ reddit_posts[q].created_utc >= now - hours_back
                          /\ reddit_posts[q].twitter_sent = FALSE
                          /\ reddit_posts[q].summary # None
                 p == posts_to_tweet[1]
             IN  /\ Ok(p)
                 /\ \A q \in PostIds : Ok(q) => reddit_posts[q].score <= reddit_posts[p].score

\* C4 witness: two posts meet the criteria and the higher-scoring one, whose
\* summary is the empty string, was selected
C4_Witness ==
    /\ tw_pc = "generate"
    /\ reddit_posts[posts_to_tweet[1]].summary = ""
    /\ \E q \in PostIds :
          /\ q # posts_to_tweet[1]
          /\ reddit_posts[q].score >= min_score
          /\ reddit_posts[q].score < reddit_posts[posts_to_tweet[1]].score
          /\ reddit_posts[q].created_utc >= now - hours_back
          /\ reddit_posts[q].summary # None

(***************************************************************************)
(* Claims about the digest bot                                             *)
(***************************************************************************)
\* task T has returned from send_daily_digest
Returned(T) == runs[T] > 0 /\ bot_pc[T] \in {"idle", "reply_success", "reply_error"}

\* this step is task T entering send_daily_digest
Enters(T) ==
    IF T = "job"
    THEN runs'["job"] = runs["job"] + 1
    ELSE bot_pc["cmd"] = "reply_generating" /\ bot_pc'["cmd"] \in {"sending", "reply_success"}

ExistsFor(dd, date) == \E i \in 1..Len(dd) : dd[i].date = date_isoformat(date)

RowOf(id) == CHOOSE r \in {daily_digests[i] : i \in 1..Len(daily_digests)} : r.id = id

\* the deliveries of task T's current cycle
DeliveredBy(T) == {d \in delivered : d.task = T /\ d.run = runs[T]}

\* the place of chat c among the send_message calls of task T's current cycle
Pos(T, c) == CHOOSE k \in 1..Len(sends[T]) : sends[T][k] = c

\* the first successful delivery of task T's current cycle
FirstDelivered(T) ==
    CHOOSE d \in DeliveredBy(T) :
        \A e \in DeliveredBy(T) : Pos(T, d.chat_id) <= Pos(T, e.chat_id)

IsPrefix(a, b) == Len(a) <= Len(b) /\ \A k \in 1..Len(a) : a[k] = b[k]

\* C5: a generation for a date that already has a DailyDigest record returns
\* the empty result (no message, no id) and adds no DailyDigest record and no
\* DigestPost row, whatever the database calls answer.
C5_NoGenerationForExistingDate ==
    [][\A T \in Tasks :
          (Enters(T) /\ ExistsFor(daily_digests, target_date(today)))
             => /\ message'[T] = NoMessage
                /\ digest_id'[T] = None
                /\ Len(daily_digests') = Len(daily_digests)
                /\ digest_posts' = digest_posts]_vars

\* C5 (its case): a generation was entered for a date with a record and
\* returned the empty result
C5_Witness ==
    /\ Returned("cmd")
    /\ runs["job"] = 1
    /\ Len(daily_digests) = 1
    /\ daily_digests[1].date = date_isoformat(target_date(today))
    /\ message["cmd"] = NoMessage
    /\ digest_id["job"] = daily_digests[1].id

\* C6: over cycles that do not overlap (the runs of one task), the digest
\* message of a date is delivered to an admin chat at most once.
C6_DeliveredOncePerChatAndDate ==
    \A d, e \in delivered :
        (d.task = e.task /\ d.chat_id = e.chat_id /\ d.date = e.date) => d = e

\* C7: there is at most one DailyDigest record per date, also when the
\* scheduled job and /test_digest interleave.
C7_OneDigestPerDate ==
    \A i, j \in 1..Len(daily_digests) :
        daily_digests[i].date = daily_digests[j].date => i = j

\* C8: a record is created pending and its status only moves
\* pending -> processing -> completed | failed: it is never completed or
\* failed without having been processing, and never leaves completed or failed.
C8_StatusLifecycle ==
    \A i \in 1..Len(daily_digests) :
        daily_digests[i].history \in
            { <<"pending">>,
              <<"pending", "processing">>,
              <<"pending", "processing", "completed">>,
              <<"pending", "processing", "failed">> }

\* C9 (as stated): when send_daily_digest has finished for a digest with a
\* record id, the status is completed with the message id of the first
\* successful delivery if a delivery succeeded, and failed if none did.
C9_FinalStatus ==
    \A T \in Tasks :
        (Returned(T) /\ Truthy(digest_id[T]))
           => LET r == RowOf(digest_id[T]) IN
              IF successful_sends[T] >= 1
              THEN /\ r.status = "completed"
                   /\ r.telegram_message_id = FirstDelivered(T).message_id
              ELSE r.status = "failed"

\* C9 (amended): when send_daily_digest has finished for a digest with a
\* record id: if a delivery succeeded the status is completed with the message
\* id of the first successful delivery, unless that update failed, and then the
\* record is still pending or processing without a message id; if no delivery
\* succeeded the status is failed, unless that update failed, and then it is
\* still pending or processing.  Nothing is written to a record after
\* completed.
C9_FinalStatusUnlessUpdateFailed ==
    /\ \A T \in Tasks :
        (Returned(T) /\ Truthy(digest_id[T]))
           => LET r == RowOf(digest_id[T]) IN
              IF successful_sends[T] >= 1
              THEN \/ /\ r.status = "completed"
                      /\ r.telegram_message_id = FirstDelivered(T).message_id
                   \/ /\ r.status \in {"pending", "processing"}
                      /\ r.telegram_message_id = None
              ELSE /\ r.status \in {"failed", "pending", "processing"}
                   /\ r.telegram_message_id = None
    /\ \A i \in 1..Len(daily_digests) :
         \A k \in 1..(Len(daily_digests[i].history) - 1) :
            daily_digests[i].history[k] # "completed"

\* C9 (its case): two deliveries succeeded and the record is completed with
\* the message id of the first
C9_Witness ==
    \E T \in Tasks :
        /\ Returned(T)
        /\ Truthy(digest_id[T])
        /\ successful_sends[T] = 2
        /\ RowOf(digest_id[T]).status = "completed"
        /\ RowOf(digest_id[T]).telegram_message_id = FirstDelivered(T).message_id
        /\ \E d \in DeliveredBy(T) : d.message_id # FirstDelivered(T).message_id

Avail(c) == Cardinality({i \in 1..Len(walk_posts) : walk_posts[i].content_type = c})

\* min(cap_c, available_c)
Take(c) == IF CATEGORY_CONFIG[c] < Avail(c) THEN CATEGORY_CONFIG[c] ELSE Avail(c)

HasPosts(c) == Avail(c) > 0

\* the non-empty categories, in the configured order
NonEmptyInOrder == SelectSeq(categories_order, HasPosts)

\* the running total after the k-th non-empty category
RECURSIVE Running(_)
Running(k) == IF k = 0 THEN 0 ELSE Running(k - 1) + Take(NonEmptyInOrder[k])

\* the place of the last category that contributes
LastIncluded ==
    IF \E k \in 1..Len(NonEmptyInOrder) : Running(k) >= walk_max
    THEN CHOOSE k \in 1..Len(NonEmptyInOrder) :
            /\ Running(k) >= walk_max
            /\ \A j \in 1..(k - 1) : Running(j) < walk_max
    ELSE Len(NonEmptyInOrder)

\* the ids of the first Take(c) posts of category c, highest score first
TopOf(c) ==
    LET InCategory(post) == post.content_type = c
        of_c == SelectSeq(walk_posts, InCategory)
    IN  [k \in 1..Take(c) |-> of_c[k].reddit_id]

RECURSIVE TopOfFirst(_)
TopOfFirst(k) == IF k = 0 THEN <<>> ELSE TopOfFirst(k - 1) \o TopOf(NonEmptyInOrder[k])

\* the included posts are those of the walk described in C11
ExactlyTheWalk ==
    /\ walk_result.digest_sections = SubSeq(NonEmptyInOrder, 1, LastIncluded)
    /\ walk_result.all_post_ids = TopOfFirst(LastIncluded)
    /\ walk_result.total_posts = Len(walk_result.all_post_ids)

\* the total exceeds the overall cap by at most (cap of the last included
\* category - 1)
OvershootBounded ==
    walk_result.digest_sections # <<>>
       => walk_result.total_posts <=
             walk_max + CATEGORY_CONFIG[walk_result.digest_sections[
                                           Len(walk_result.digest_sections)]] - 1

\* C11 (as stated): the posts of a digest are, walking the category order,
\* the first min(cap, available) posts by score of each non-empty category up
\* to and including the first category after which the running total has
\* reached the overall cap; and the total exceeds the overall cap by at most
\* the last included category's cap minus one.
C11_WalkAndOvershoot ==
    walk_pc = "done" => (ExactlyTheWalk /\ OvershootBounded)

\* C11 (amended): the same, the bound on the overshoot being claimed only for
\* an overall cap of at least 1.
C11_WalkAndOvershootForPositiveCap ==
    walk_pc = "done" => (ExactlyTheWalk /\ (walk_max >= 1 => OvershootBounded))

\* C11 (its case): overall cap 5, five news posts and one tool post: the
\* digest holds four news posts and then the tool post
C11_Witness ==
    /\ walk_pc = "done"
    /\ walk_max = 5
    /\ Avail("news") = 5
    /\ Avail("tool") = 1
    /\ walk_result.digest_sections = <<"news", "tool">>
    /\ Len(walk_result.all_post_ids) = 5
    /\ \A k \in 1..4 : walk_posts[walk_result.all_post_ids[k]].content_type = "news"
    /\ walk_posts[walk_result.all_post_ids[5]].content_type = "tool"

(***************************************************************************)
(* Claims about the interactive handlers (checked under SpecChat)          *)
(***************************************************************************)
\* C12: whenever a text-message handler has finished, normally or through its
\* error path, the conversation history of every user holds at most 20
\* entries.
C12_HistoryBounded ==
    \A u \in ChatUsers : Len(user_contexts[u]) <= HistoryLimit

\* C12 (its case): a full history got a new turn and was cut back to 20
\* entries, the last being the new response
C12_Witness ==
    /\ last_handled.handler = "text"
    /\ last_handled.replies = <<Apology("RateLimitError")>>
    /\ \E u \in ChatUsers :
         /\ Len(user_contexts[u]) = HistoryLimit
         /\ user_contexts[u][HistoryLimit] =
               [role |-> "assistant", content |-> Apology("RateLimitError")]

Spaces(n) == [i \in 1..n |-> " "]

\* text is raw without its leading and trailing blanks
IsTrimOf(text, raw) ==
    /\ text = <<>> \/ (text[1] # " " /\ text[Len(text)] # " ")
    /\ \E i, j \in 0..Len(raw) : raw = Spaces(i) \o text \o Spaces(j)

\* C13: ChatHandler.handle_message always returns: for a rate-limit error, a
\* timeout, an API error, any other exception and a reply without content it
\* gives the canned text of that case, each different from the others, and
\* otherwise the model's reply without leading and trailing blanks.
C13_HandleMessageAnswers ==
    (last_handled.handler = "text" /\ last_handled.llm # NoOutcome)
       => LET o == last_handled.llm
              r == last_handled.response
          IN  CASE o.kind = "RateLimitError" ->
                     r = <<"I'm experiencing high demand right now. Please wait a moment and try again.">>
                [] o.kind = "APITimeoutError" ->
                     r = <<"My response took too long to generate. Please try asking again.">>
                [] o.kind = "APIError" ->
                     r = <<"I'm having technical difficulties right now. Please try again in a few minutes.">>
                [] o.kind = "Exception" ->
                     r = <<"Something went wrong while processing your message. Please try again.">>
                [] o.kind = "no_content" \/ (o.kind = "ok" /\ o.content = <<>>) ->
                     r = <<"I'm sorry, I couldn't generate a response right now. Please try again.">>
                [] OTHER -> IsTrimOf(r, o.content)

\* C13 (its case): the model replied " a" and the response is "a"
C13_Witness ==
    /\ last_handled.handler = "text"
    /\ last_handled.llm = [kind |-> "ok", content |-> <<" ", "a">>]
    /\ last_handled.response = <<"a">>
    /\ last_handled.replies = <<<<"a">>>>

\* C14: no exception leaves a handler (/start, /help, /stats, /digest, the
\* text handler), a failing Telegram send included.
C14_NoExceptionLeavesAHandler ==
    last_handled.raised = FALSE

(***************************************************************************)
(* Claims about /test_digest (checked under SpecDigest)                    *)
(***************************************************************************)
\* this step is a step of the /test_digest handler
CmdStep == bot_pc'["cmd"] # bot_pc["cmd"]

NotInAdminList(u) == \A i \in 1..Len(admin_chat_ids) : admin_chat_ids[i] # u

\* C15: a /test_digest from a caller outside the admin list never starts a
\* generation-and-send cycle: it generates no digest, creates or changes no
\* DailyDigest record and sends nothing to the admin chats; the cycle runs
\* only for callers in the list.
C15_OnlyAdminsTriggerACycle ==
    [][(CmdStep /\ NotInAdminList(cmd_user'))
          => /\ bot_pc'["cmd"] \in {"reply_denied", "idle"}
             /\ daily_digests' = daily_digests
             /\ digest_posts' = digest_posts
             /\ delivered' = delivered
             /\ sends'["cmd"] = <<>>
             /\ message'["cmd"] = NoMessage]_vars

\* C15 (its case): with admins configured, an outsider's /test_digest was
\* answered with the refusal and nothing else happened
C15_Witness ==
    /\ admin_chat_ids # <<>>
    /\ NotInAdminList(cmd_user)
    /\ runs = [job |-> 0, cmd |-> 1]
    /\ bot_pc["cmd"] = "idle"
    /\ replies = <<"denied">>
    /\ daily_digests = <<>>
    /\ delivered = {}

\* C16: when an admin's /test_digest has given its final reply, that reply is
\* the success message if the cycle delivered the digest to some chat, and the
\* error text if generation failed or no chat could be reached.
C16_FinalReplyTellsOutcome ==
    (/\ bot_pc["cmd"] = "idle"
     /\ runs["cmd"] > 0
     /\ replies # <<>>
     /\ replies[Len(replies)] \in {"success", "error"})
       => replies[Len(replies)] =
             IF successful_sends["cmd"] >= 1 THEN "success" ELSE "error"

(***************************************************************************)
(* Reddit fetcher claims                                                   *)
(***************************************************************************)
\* the subreddits of a sequence of names
NamesIn(names) == {names[k] : k \in DOMAIN names}

\* the calls of fetch_subreddit_submissions that ended, for one subreddit
AttemptsOf(name) == {k \in DOMAIN fetch_log : fetch_log[k].subreddit = name}

\* the ended call k was cut short by too-many-requests on a first attempt
RateLimitedFirst(k) ==
    fetch_log[k].attempt = 1 /\ fetch_log[k].outcome = "TooManyRequests"

\* the ended call k is the retry of the call just before it
RetryOfPrevious(k) ==
    /\ k > 1
    /\ fetch_log[k].attempt = 2
    /\ fetch_log[k].subreddit = fetch_log[k - 1].subreddit
    /\ RateLimitedFirst(k - 1)

\* C17: whenever the Reddit client signals too-many-requests during a
\* subreddit's fetch, while listing its submissions or while fetching their
\* comments, the run pauses and fetches that subreddit once more; a retry
\* that does not return records 0 for the subreddit; no subreddit is
\* fetched more than twice.
C17_RateLimitPausesAndRetriesOnce ==
    /\ \A name \in NamesIn(target_subreddits) : Cardinality(AttemptsOf(name)) <= 2
    /\ \A k \in DOMAIN fetch_log :
         /\ fetch_log[k].attempt = 2 => RetryOfPrevious(k)
         /\ (fetch_log[k].attempt = 2 /\ fetch_log[k].outcome # "returned")
               => fetch_results[fetch_log[k].subreddit] = 0
    /\ fetch_pc = "done" =>
         \A name \in fetch_signals :
            /\ name \in NamesIn(fetch_pauses)
            /\ \E k \in AttemptsOf(name) : fetch_log[k].attempt = 2

\* C17 witness: the listing of a subreddit was cut short by
\* too-many-requests, the run paused, fetched the subreddit again, the retry
\* failed as well and the subreddit's count is 0.
C17_Witness ==
    /\ fetch_pc = "done"
    /\ \E k \in DOMAIN fetch_log :
         /\ RetryOfPrevious(k)
         /\ fetch_log[k].outcome = "TooManyRequests"
         /\ fetch_log[k].subreddit \in NamesIn(fetch_pauses)
         /\ fetch_results[fetch_log[k].subreddit] = 0

\* the subreddits fetched, in the order of their first attempts
RECURSIVE FirstAttempts(_)
FirstAttempts(log) ==
    IF log = <<>> THEN <<>>
    ELSE IF Head(log).attempt = 1
         THEN <<Head(log).subreddit>> \o FirstAttempts(Tail(log))
         ELSE FirstAttempts(Tail(log))

\* the last ended call for a subreddit
LastAttemptOf(name) ==
    CHOOSE k \in AttemptsOf(name) : \A j \in AttemptsOf(name) : j <= k

\* what the run returns: one entry for every target, the targets fetched in
\* list order, and 0 for a subreddit whose last fetch did not return
ReturnsEveryTarget ==
    /\ DOMAIN fetch_results = NamesIn(target_subreddits)
    /\ FirstAttempts(fetch_log) = target_subreddits
    /\ \A name \in NamesIn(target_subreddits) :
         fetch_log[LastAttemptOf(name)].outcome # "returned" => fetch_results[name] = 0

\* a submission or a comment that fails leaves the listing running
ItemFailureKeepsListing ==
    fetch_yielded' = fetch_yielded + 1 => fetch_pc' = "listing"

\* C18: a run of fetch_all_subreddits ends; what it returns has one entry
\* for every configured target; a failing submission or comment leaves the
\* listing running, a failed subreddit is recorded as 0, and the subreddits
\* after it are still fetched, in list order.
C18_RunEndsWithEveryTarget ==
    /\ <>(fetch_pc = "done")
    /\ [](fetch_pc = "done" => ReturnsEveryTarget)
    /\ [][ItemFailureKeepsListing]_vars

\* C18 witness: the run has ended after a server error in the first
\* subreddit, and the second subreddit was fetched and stored a submission.
C18_Witness ==
    /\ fetch_pc = "done"
    /\ ReturnsEveryTarget
    /\ fetch_log[1].outcome = "ServerError"
    /\ fetch_results[target_subreddits[1]] = 0
    /\ fetch_results[target_subreddits[2]] > 0

\* the rows of a table that carry one reddit_id
RowsOf(table, id) == {row \in table : row.reddit_id = id}

RepliedJsonWithKeys(reply) ==
    /\ reply.kind = "text"
    /\ reply.lead \in {<<>>, <<CodeFence>>, <<"Analysis:">>, <<CodeFence, "Analysis:">>}
    /\ reply.body.type \in {"list", "dict"}
    /\ {"summary", "category", "keywords"} \subseteq reply.body.items

\* the post handled last had a URL whose content could not be fetched
UrlFetchFailed(last) ==
    \E post \in {proc_batch[k] : k \in DOMAIN proc_batch} :
       post.reddit_id = last.reddit_id /\ url_fetcher /\ post.url # None /\ ~last.fetched

\* the ids a run that starts now gets from its first selection
SelectedNext ==
    LET posts == get_unprocessed_posts(post_rows, Min(batch_size, RunLimit), TRUE)
    IN  {posts[k].reddit_id : k \in DOMAIN posts}

\* the step is a turn of process_batch's loop
HandlesAPost == proc_pc = "batch" /\ proc_k' = proc_k + 1

\* a step writes a row only for the post it handles, and only after that
\* post's reply parsed as JSON with the three keys; what it writes sets
\* content_processed_at, summary, content_type and keywords together
WritesOnlyAfterParsing ==
    \A id \in ProcIds :
       post_rows'[id] # post_rows[id] =>
          /\ HandlesAPost
          /\ proc_last'.reddit_id = id
          /\ ~UrlFetchFailed(proc_last')
          /\ RepliedJsonWithKeys(proc_last'.reply)
          /\ post_rows[id].content_processed_at = None
          /\ post_rows'[id].content_processed_at # None
          /\ post_rows'[id].summary # None
          /\ post_rows'[id].content_type # None
          /\ ~post_rows'[id].keywords.is_null

\* a step that handles a post and meets a URL-fetch, LLM, parse or
\* missing-key failure leaves every row as it was
FailureLeavesRows ==
    (/\ HandlesAPost
     /\ UrlFetchFailed(proc_last') \/ ~RepliedJsonWithKeys(proc_last'.reply))
    => /\ post_rows' = post_rows
       /\ proc_last'.reddit_id \in proc_failed'

C28_ThreadIsOneReplyChain ==
    \A k \in DOMAIN timeline :
       IF timeline[k].text = 1
       THEN timeline[k].in_reply_to_tweet_id = None
       ELSE /\ k > 1
            /\ timeline[k - 1].cycle = timeline[k].cycle
            /\ timeline[k - 1].text = timeline[k].text - 1
            /\ timeline[k].in_reply_to_tweet_id = timeline[k - 1].id

\* C28 witness: a thread of three tweets was created in one call, the second
\* replying to the first and the third to the second.
C28_Witness ==
    \E k \in DOMAIN timeline :
       /\ k >= 3
       /\ timeline[k].text = 3
       /\ timeline[k].in_reply_to_tweet_id = timeline[k - 1].id
       /\ timeline[k - 1].in_reply_to_tweet_id = timeline[k - 2].id
       /\ timeline[k - 2].in_reply_to_tweet_id = None

(***************************************************************************)
(* Content processor claims: overlapping runs, retries, counters           *)
(***************************************************************************)
\* the enrichment fields of a row
Enrichment(row) ==
    <<row.summary, row.content_type, row.keywords, row.content_processed_at>>

\* C21: the processor sends no post to the LLM, and overwrites the
\* enrichment fields of no post, whose content_processed_at is set in the
\* table at that moment, also while another run works on the same table.
C21_ProcessedPostsAreLeftAlone ==
    [][/\ (HandlesAPost /\ proc_last'.llm_called)
           => post_rows[proc_last'.reddit_id].content_processed_at = None
       /\ \A id \in ProcIds :
            Enrichment(post_rows'[id]) # Enrichment(post_rows[id])
               => post_rows[id].content_processed_at = None]_vars

\* C21 witness: this run has sent a post to the LLM and written its row
\* while the other run still holds the same post in its batch.
C21_Witness ==
    /\ proc_last.llm_called
    /\ post_rows[proc_last.reddit_id].content_processed_at = utc_now
    /\ \E k \in DOMAIN other_batch : other_batch[k].reddit_id = proc_last.reddit_id

\* C22: in one run of process_all_unprocessed no post is sent to the LLM a
\* second time.
C22_SentToLLMOncePerRun ==
    ~proc_last.again

\* C22 witness: a post was sent to the LLM and failed, and the same run has
\* selected it again in its next batch.
C22_Witness ==
    /\ proc_pc = "batch"
    /\ proc_k = 1
    /\ proc_offset > 0
    /\ proc_batch[1].reddit_id \in llm_sent
    /\ proc_batch[1].reddit_id \in proc_failed

\* the posts the run has handled when it is at a batch
Handled_posts ==
    proc_offset + (IF proc_pc = "batch" THEN proc_k - 1 ELSE 0)

Total(stats) == stats.processed + stats.failed + stats.skipped

\* the run goes on only while the last page was full and the limit is not
\* reached; a page is never larger than what is left of the limit
StopsAtShortPageOrLimit ==
    /\ proc_pc = "batch" => Len(proc_batch) <= Min(batch_size, RunLimit - proc_offset)
    /\ (proc_pc = "loop" /\ proc_offset > 0) => proc_offset % batch_size = 0
    /\ proc_offset <= RunLimit

\* a step that ends a batch ends the run exactly when the page was short,
\* and a selection ends the run when the limit is reached
EndsWhenItShould ==
    /\ (proc_pc = "batch" /\ proc_pc' # "batch")
          => (proc_pc' = "idle" <=> Len(proc_batch) < batch_size)
    /\ (proc_pc = "loop" /\ proc_offset >= RunLimit) => proc_pc' = "idle"

\* C23: a run of process_all_unprocessed ends; it stops as soon as a page
\* is shorter than batch_size or the posts handled reach the limit; and the
\* counters it returns add up to the number of posts handled, at most the
\* limit.
C23_RunEndsAndCountsAddUp ==
    /\ [](proc_pc # "idle" => <>(proc_pc = "idle"))
    /\ [][EndsWhenItShould]_vars
    /\ [](/\ StopsAtShortPageOrLimit
          /\ Total(total_stats) + Total(batch_stats) = Handled_posts
          /\ proc_pc = "idle" => /\ Total(total_stats) = proc_offset
                                 /\ Total(total_stats) <= RunLimit)

\* C23 witness: a run has ended at the limit after two full pages, with
\* posts that failed and none processed.
C23_Witness ==
    /\ proc_pc = "idle"
    /\ proc_runs > 0
    /\ proc_offset = RunLimit
    /\ total_stats.failed = RunLimit
    /\ Total(total_stats) = RunLimit

\* the category the claim names for a category of the reply
NamedCategory(category) ==
    IF category = "News" THEN "news"
    ELSE IF category = "announcement" THEN "news"
    ELSE IF category = "PAPER" THEN "research"
    ELSE "other"

\* the post handled last was written
WrittenLast ==
    /\ proc_last.llm_called
    /\ proc_last.db_ok
    /\ post_rows[proc_last.reddit_id].content_processed_at = utc_now

\* C26: every content_type in the table is one of the eight categories; a
\* valid name is written in lower case, a synonym as its category, and any
\* other string as other.
C26_ContentTypeIsOneOfEight ==
    /\ \A id \in ProcIds :
         post_rows[id].content_type \in
            {None, "news", "discussion", "tutorial", "question", "tool", "research",
             "showcase", "other"}
    /\ WrittenLast =>
         post_rows[proc_last.reddit_id].content_type =
            NamedCategory(proc_last.reply.body.category)

\* C26 witness: a reply with the category PAPER was written as research.
C26_Witness ==
    /\ WrittenLast
    /\ proc_last.reply.body.category = "PAPER"
    /\ post_rows[proc_last.reddit_id].content_type = "research"

\* C30: with URL fetching enabled, a post that has a URL whose fetch gives
\* no content is not sent to the LLM; it is counted as failed and its row is
\* left alone, also when it has content of its own.
C30_NoLLMCallWithoutFetchedContent ==
    [][(/\ HandlesAPost
        /\ url_fetcher
        /\ proc_batch[proc_k].url # None
        /\ ~proc_last'.fetched)
       => /\ ~proc_last'.llm_called
          /\ batch_stats'.failed = batch_stats.failed + 1
          /\ batch_stats'.processed = batch_stats.processed
          /\ post_rows' = post_rows]_vars

\* C30 witness: a post with content and a URL was handled, nothing was
\* fetched from the URL, no LLM call was made and the post counts as failed.
C30_Witness ==
    /\ url_fetcher
    /\ proc_pc = "batch"
    /\ proc_k = 2
    /\ proc_batch[1].content # None
    /\ proc_batch[1].url # None
    /\ proc_last.reddit_id = proc_batch[1].reddit_id
    /\ ~proc_last.fetched
    /\ ~proc_last.llm_called
    /\ batch_stats.failed = 1
    /\ post_rows[proc_last.reddit_id].content_processed_at = None

\* the comment rows a step of the fetcher wrote or replaced
UpsertedComments == comments_table' \ comments_table

\* the submission with this id was upserted by the same turn of the listing
\* loop, inside the running call of fetch_subreddit_submissions
StoredJustBefore(id) ==
    /\ fetch_pc = "listing"
    /\ stored_count' = stored_count + 1
    /\ \E row \in posts_table' : row.reddit_id = id

\* C29: in a fetch run a comment is upserted for a submission only when
\* comment fetching is enabled and the submission's own upsert succeeded
\* just before in the same run; a submission that was filtered out or that
\* failed to store gets no comment row
C29_CommentsOnlyAfterStoredSubmission ==
    [][\A row \in UpsertedComments :
          fetch_comments /\ StoredJustBefore(row.post_reddit_id)]_vars

\* C29: a comment row was written for a stored submission while comment
\* fetching is enabled, and a filtered-out submission was listed as well
C29_Witness ==
    /\ fetch_comments
    /\ \E row \in comments_table :
         \E post \in posts_table : post.reddit_id = row.post_reddit_id
    /\ \E id \in SubmissionIds :
         /\ \A post \in posts_table : post.reddit_id # id
         /\ \A row \in comments_table : row.post_reddit_id # id
    /\ fetch_yielded >= 2

\* the comment body after str.strip()
Trimmed(comment) == strip(comment.body.chars)

\* what the filter is said to accept: a body that is there and neither
\* "[deleted]" nor "[removed]", a score of min_comment_score or more, ten
\* characters or more after trimming, and no low-information answer
Acceptable(comment) ==
    /\ comment.body.present
    /\ comment.body \notin {DeletedBody, RemovedBody}
    /\ comment.score >= min_comment_score
    /\ Len(Trimmed(comment)) >= 10
    /\ lower_case(Trimmed(comment)) \notin
          {<<"t", "h", "i", "s">>, <<"s", "a", "m", "e">>, <<"y", "e", "s">>,
           <<"n", "o">>, <<"l", "o", "l">>, <<"t", "h", "a", "n", "k", "s">>}

\* the filter was asked about this body at this score
AskedAbout(body, score) ==
    filter_pc = "answered" /\ filter_comment = [body |-> body, score |-> score]

\* C25: _should_include_comment accepts a comment exactly when its body is
\* present and not "[deleted]" or "[removed]", its score is at least
\* min_comment_score, its trimmed body has ten characters or more and its
\* trimmed lower-cased body is none of this, same, yes, no, lol, thanks; so
\* "yes" at score 10, "Short" at score 5, "[deleted]" at score 5 and a
\* comment of score 1 are turned down and the detailed comment at score 8
\* is accepted
C25_FilterAcceptsExactlyTheInformative ==
    /\ filter_pc = "answered" => (filter_answer <=> Acceptable(filter_comment))
    /\ AskedAbout(Body(<<"y", "e", "s">>), 10) => ~filter_answer
    /\ AskedAbout(Body(<<"S", "h", "o", "r", "t">>), 5) => ~filter_answer
    /\ AskedAbout(DeletedBody, 5) => ~filter_answer
    /\ (filter_pc = "answered" /\ filter_comment.score = 1) => ~filter_answer
    /\ AskedAbout(DetailedBody, 8) => filter_answer

\* C25: the filter was asked about the detailed comment at score 8 and
\* accepted it
C25_Witness == AskedAbout(DetailedBody, 8) /\ filter_answer

\* the variables a loader requires
RequiredBy(loader) ==
    IF loader = "reddit" THEN Names(RedditRequired)
    ELSE IF loader = "twitter" THEN Names(TwitterRequired)
    ELSE IF loader = "bot" THEN Names(BotRequired)
    ELSE {}

\* the required variables of the loader that ran which the environment
\* does not have
Absent == RequiredBy(config_outcome.loader) \ environ

\* C27: whichever loader runs, when required variables are absent it fails
\* with an error that names every one of them, not only the first
C27_ErrorNamesEveryMissingVariable ==
    (config_pc = "loaded" /\ Absent # {}) =>
        /\ config_outcome.kind = "ValueError"
        /\ Absent \subseteq Names(config_outcome.named)

\* C27: a loader ran with two or more required variables absent and its
\* error names one variable only
C27_Witness ==
    /\ config_pc = "loaded"
    /\ Cardinality(Absent) >= 2
    /\ config_outcome.kind = "ValueError"
    /\ Len(config_outcome.named) = 1

\* the loaders of the scripts collect the names before they raise
ScriptLoadersNameEveryMissingVariable ==
    (config_pc = "loaded" /\ config_outcome.loader \in {"reddit", "twitter"}
        /\ Absent # {}) =>
        /\ config_outcome.kind = "ValueError"
        /\ Names(config_outcome.named) = Absent

\* the row of reddit_comments for a comment of the forest, if there is one
StoredAt(id, depth) ==
    \E row \in comment_rows : row.reddit_id = id /\ row.depth = depth

\* the comment and everything above it in its chain pass the filter
PassesDownTo(id) ==
    \A k \in 1..(NestingOf(id) + 1) : should_include_comment(CommentAt(ChainIds[k]))

\* C24: with max_comment_depth = D and no failing call, every reply at
\* nesting level 1..D whose chain passes the filter is stored with its
\* level as depth, below the stored top-level comment of depth 0, and no
\* row lies deeper than D
C24_RepliesStoredDownToDepthD ==
    (replies_pc = "done" /\ failing_stores = {} /\ failing_replies = {}) =>
        /\ \A row \in comment_rows : row.depth <= max_comment_depth
        /\ \A k \in DOMAIN ChainIds :
             (k - 1 <= max_comment_depth /\ PassesDownTo(ChainIds[k]))
                 => StoredAt(ChainIds[k], k - 1)

\* C24: with max_comment_depth = 2 and every call succeeding, the top-level
\* comment and its reply are stored, and the reply to that reply, which
\* passes the filter too, is not
C24_Witness ==
    /\ replies_pc = "done" /\ failing_stores = {} /\ failing_replies = {}
    /\ max_comment_depth = 2
    /\ PassesDownTo(ChainIds[3])
    /\ StoredAt(ChainIds[1], 0)
    /\ StoredAt(ChainIds[2], 1)
    /\ \A row \in comment_rows : row.reddit_id # ChainIds[3]

\* what the code does store: the replies above depth D, and nothing at
\* depth D or deeper once D is positive
RepliesStoredAboveDepthD ==
    (replies_pc = "done" /\ failing_stores = {} /\ failing_replies = {}) =>
        /\ \A row \in comment_rows : row.depth < max_comment_depth \/ row.depth = 0
        /\ \A k \in DOMAIN ChainIds :
             ((k = 1 \/ k - 1 < max_comment_depth) /\ PassesDownTo(ChainIds[k]))
                 => StoredAt(ChainIds[k], Min(k - 1, DepthCeiling))

\* the rows of reddit_comments that are replies
ReplyRows == {row \in comment_rows : row.parent_comment_reddit_id # None}

\* a row of a top-level comment of the forest is recorded as one
TopLevelRowsWellFormed ==
    \A row \in comment_rows :
        (row.reddit_id \in {TopLevel[k] : k \in DOMAIN TopLevel}) =>
            /\ row.parent_comment_reddit_id = None
            /\ row.depth = 0
            /\ row.post_reddit_id = CommentedSubmission

\* a reply row belongs to the submission and names a stored comment that
\* is the comment it replies to
RepliesHaveStoredParent ==
    \A row \in ReplyRows :
        /\ row.post_reddit_id = CommentedSubmission
        /\ RepliesOf(row.parent_comment_reddit_id) # <<>>
        /\ RepliesOf(row.parent_comment_reddit_id)[1] = row.reddit_id
        /\ \E parent \in comment_rows :
             /\ parent.reddit_id = row.parent_comment_reddit_id
             /\ parent.post_reddit_id = row.post_reddit_id

\* the stored parent of a reply row
ParentRow(row) ==
    CHOOSE parent \in comment_rows : parent.reddit_id = row.parent_comment_reddit_id

\* C35 as stated: every stored comment keeps the tree well-formed, and the
\* depth of a reply is the depth of its stored parent plus one
C35_TreeWellFormed ==
    /\ TopLevelRowsWellFormed
    /\ RepliesHaveStoredParent
    /\ \A row \in ReplyRows : row.depth = ParentRow(row).depth + 1

\* C35 (amended): every stored comment keeps the tree well-formed; a
\* top-level comment has no parent and depth 0, a reply has the submission of
\* its parent, a parent stored earlier in the same run, and as depth the
\* depth of that parent plus one, but never more than 10
C35_TreeWellFormedUpToDepthCeiling ==
    /\ TopLevelRowsWellFormed
    /\ RepliesHaveStoredParent
    /\ \A row \in ReplyRows :
         row.depth = IF ParentRow(row).depth + 1 > 10 THEN 10
                     ELSE ParentRow(row).depth + 1

\* C35: a fetch stored a top-level comment, its reply and the reply to that
\* reply, and further down a reply whose depth the ceiling holds at 10
C35_Witness ==
    /\ replies_pc = "done"
    /\ StoredAt(ChainIds[1], 0) /\ StoredAt(ChainIds[2], 1) /\ StoredAt(ChainIds[3], 2)
    /\ \E row \in ReplyRows : row.depth = 10 /\ ParentRow(row).depth = 10

\* C38: once a DailyDigest record exists for a date, whatever its status, a
\* later send cycle for that date generates nothing and issues no
\* send_message: a digest whose delivery failed to every chat is not retried
C38_RecordedDateIsNeverSentAgain ==
    [][\A T \in Tasks :
          (Enters(T) /\ ExistsFor(daily_digests, target_date(today)))
             => /\ message'[T] = NoMessage
                /\ sends'[T] = <<>>
                /\ bot_pc'[T] # "sending"]_vars

\* C38: the digest of the date failed to reach every chat, and the next
\* cycle of the scheduled job for that date returned without sending
C38_Witness ==
    /\ runs["job"] = 2
    /\ Returned("job")
    /\ sends["job"] = <<>>
    /\ delivered = {}
    /\ Len(daily_digests) = 1
    /\ daily_digests[1].date = date_isoformat(target_date(today))
    /\ daily_digests[1].status = "failed"

\* post P meets the tweet criteria, is not marked tweeted, and scores higher
\* than every other post that does
HighestScoring(P) ==
    /\ MeetsTweetCriteria(reddit_posts[P], now)
    /\ \A q \in PostIds \ {P} :
         MeetsTweetCriteria(reddit_posts[q], now)
            => reddit_posts[q].score < reddit_posts[P].score

\* this step is the start of a posting cycle
StartsCycle == cycle' = cycle + 1

\* C34 as stated: while P is the highest-scoring post that meets the tweet
\* criteria and is not marked tweeted, every posting cycle attempts P and no
\* other post
C34_EveryCycleAttemptsTheTopPost ==
    [][\A P \in PostIds :
          (StartsCycle /\ HighestScoring(P)) => posts_to_tweet' = <<P>>]_vars

\* C34 (amended): while P is the highest-scoring post that meets the tweet
\* criteria and is not marked tweeted, a posting cycle whose query answers
\* attempts P and no other post, and a cycle whose query raises attempts
\* no post at all; no lower-scoring post is attempted in either case
C34_CycleAttemptsTheTopPostOrNone ==
    [][\A P \in PostIds :
          (StartsCycle /\ HighestScoring(P))
             => /\ ~query_failed' => posts_to_tweet' = <<P>>
                /\ query_failed' => posts_to_tweet' = <<>>
                /\ results'.attempted = Len(posts_to_tweet')]_vars

\* C34: P was attempted in the first cycle, its thread was not completed,
\* and the second cycle attempts P again although a lower-scoring post
\* meets the criteria too
C34_Witness ==
    /\ cycle = 2
    /\ tw_pc # "idle"
    /\ \E P \in PostIds :
         /\ posts_to_tweet = <<P>>
         /\ HighestScoring(P)
         /\ \E k \in 1..Len(timeline) : timeline[k].post = P /\ timeline[k].cycle = 1
         /\ \E q \in PostIds \ {P} : MeetsTweetCriteria(reddit_posts[q], now)

\* this step is the text handler asking the model for user u
AsksModelFor(u) ==
    /\ handled' = handled + 1
    /\ last_handled'.handler = "text"
    /\ last_handled'.llm # NoOutcome
    /\ chat_request'.user_id = u

\* the turns of a request between the system prompt and the new message
ContextOf(request) == SubSeq(request.messages, 2, Len(request.messages) - 1)

\* C36: the request built for an incoming text message is the system
\* prompt, at most the last 10 turns of the history as it was before the
\* message came in, and the new user message once: the context handed to
\* handle_message does not hold the message being answered
C36_RequestHoldsNewMessageOnce ==
    [][\A u \in ChatUsers :
          AsksModelFor(u) =>
             /\ Head(chat_request'.messages) = SystemPrompt
             /\ chat_request'.messages[Len(chat_request'.messages)].role = "user"
             /\ Len(ContextOf(chat_request')) <= 10
             /\ ContextOf(chat_request') = LastEntries(user_contexts[u], 10)]_vars

\* C36: a request was built for the first message of a user, and it holds
\* that message twice after the system prompt
C36_Witness ==
    /\ last_handled.handler = "text"
    /\ last_handled.llm # NoOutcome
    /\ Len(chat_request.messages) = 3
    /\ chat_request.messages[2] = chat_request.messages[3]
    /\ chat_request.messages[3].role = "user"
    /\ Len(user_contexts[chat_request.user_id]) = 2

\* what the request does hold: the new message is the last of the context
\* turns as well
RequestRepeatsNewMessage ==
    [][\A u \in ChatUsers :
          AsksModelFor(u) =>
             /\ Len(ContextOf(chat_request')) >= 1
             /\ ContextOf(chat_request')[Len(ContextOf(chat_request'))]
                   = chat_request'.messages[Len(chat_request'.messages)]]_vars

\* the roles of a history alternate, a user turn first
RolesAlternate(history) ==
    \A i \in 1..Len(history) :
        history[i].role = IF i % 2 = 1 THEN "user" ELSE "assistant"

\* the text handler is the only handler that touches a history, and only
\* the history of the user whose message it handles
OnlyOwnHistoryChanges ==
    \A u \in ChatUsers :
        user_contexts'[u] # user_contexts[u] =>
            /\ last_handled'.handler = "text"
            /\ \A v \in ChatUsers \ {u} : user_contexts'[v] = user_contexts[v]

\* C37: in every history each assistant turn follows the user turn it
\* answers, the roles alternating user, assistant; and handling a message
\* of one user never changes the history of another
C37_TurnsAlternatePerUser ==
    /\ [](\A u \in ChatUsers : RolesAlternate(user_contexts[u]))
    /\ [][OnlyOwnHistoryChanges]_vars

\* C37: a user turn was left without its answer and the next message of
\* the same user was answered, so two user turns stand side by side
C37_Witness ==
    \E u \in ChatUsers : \E i \in 1..(Len(user_contexts[u]) - 2) :
        /\ user_contexts[u][i].role = "user"
        /\ user_contexts[u][i + 1].role = "user"
        /\ user_contexts[u][i + 2].role = "assistant"

\* handling a message of one user leaves every other history alone
HistoriesAreSeparate == [][OnlyOwnHistoryChanges]_vars

\* the posts a run selects first when its query does not raise
SelectedFirst ==
    {get_unprocessed_posts(post_rows, Min(batch_size, RunLimit), TRUE)[k].reddit_id :
        k \in DOMAIN get_unprocessed_posts(post_rows, Min(batch_size, RunLimit), TRUE)}

\* an unprocessed post with something to analyse
AwaitsProcessing(id) ==
    /\ post_rows[id].content_processed_at = None
    /\ Analyzable(post_rows[id])

\* C33: over repeated runs of process_all_unprocessed, every unprocessed post
\* with analyzable content is eventually processed, unless its own handling
\* fails, however many newer unprocessed posts are image-only or keep
\* failing
C33_AnalyzablePostsAreEventuallyProcessed ==
    \A id \in ProcIds : <>(~AwaitsProcessing(id) \/ id \in proc_failed)

\* C33: after the counted runs a post with analyzable content is still
\* unprocessed, was never handled with a failure, and the next run does not
\* select it: the newer posts fill the batch
C33_Witness ==
    /\ proc_pc = "idle"
    /\ proc_runs = MaxProcRuns
    /\ \E id \in ProcIds :
         /\ AwaitsProcessing(id)
         /\ id \notin proc_failed
         /\ id \notin SelectedFirst

\* the newest post is not held back by any other: it is processed, or its
\* own handling fails
NewestPostIsEventuallyHandled ==
    <>(~AwaitsProcessing(ProcPostIds[NumProcPosts])
           \/ ProcPostIds[NumProcPosts] \in proc_failed)

(***************************************************************************)
(* Claims about the table reddit_posts between its writers (checked under  *)
(* SpecTable)                                                              *)
(***************************************************************************)
\* the processor has enriched the post
Enriched(row) == row.summary # None /\ row.content_processed_at # None

\* created within the trailing one-day window
InDayWindow(row) ==
    row.created_utc >= wall_clock - 24 /\ row.created_utc <= wall_clock

\* C31: every post the content processor has enriched (summary and
\* content_processed_at set) that was created within the trailing one-day
\* window is among the posts get_posts_for_digest gives, with no other
\* component writing to its row
C31_EnrichedPostsReachTheDigestQuery ==
    \A p \in PostIds :
        (Enriched(post_table[p]) /\ InDayWindow(post_table[p]))
            => p \in get_posts_for_digest(post_table, wall_clock, DigestQueryLimit)

\* C31: the processor has just written the enrichment of a post of the last
\* day, and the digest query does not give the post
C31_Witness ==
    /\ table_op.name = "update_post_with_processing"
    /\ table_op.written
    /\ \E p \in PostIds :
         /\ table_op.reddit_id = p
         /\ Enriched(post_table[p])
         /\ InDayWindow(post_table[p])
         /\ p \notin get_posts_for_digest(post_table, wall_clock, DigestQueryLimit)

\* an enriched post of the last day whose processing_status the database
\* holds as processed is among the posts of the digest query
MarkedProcessedPostsReachTheDigestQuery ==
    \A p \in PostIds :
        (Enriched(post_table[p]) /\ InDayWindow(post_table[p])
            /\ post_table[p].processing_status = "processed")
            => p \in get_posts_for_digest(post_table, wall_clock, DigestQueryLimit)

\* the columns the processor and the Twitter poster write
WrittenByOthers(row) ==
    <<row.summary, row.content_type, row.keywords, row.content_processed_at,
      row.twitter_sent, row.twitter_sent_at>>

\* C32: storing a stored post again changes only the columns read from
\* Reddit: summary, content_type, keywords, content_processed_at,
\* twitter_sent and twitter_sent_at keep their values, so an enriched post
\* stays processed and a tweeted post is not given by the poster's query
\* again
C32_StoringAgainKeepsEnrichmentAndTweetMark ==
    [][table_op'.name = "store_submission" =>
          \A p \in PostIds :
              /\ WrittenByOthers(post_table'[p]) = WrittenByOthers(post_table[p])
              /\ post_table'[p].processing_status = post_table[p].processing_status
              /\ post_table[p].content_processed_at # None
                    => post_table'[p].content_processed_at # None
              /\ post_table[p].twitter_sent
                    => <<p>> \notin get_posts_to_tweet(post_table', wall_clock')]_vars

\* C32: an enriched and tweeted post was stored again with a score below
\* the poster's threshold, and is still enriched and marked as tweeted
C32_Witness ==
    /\ table_op.name = "store_submission"
    /\ table_op.written
    /\ \E p \in PostIds :
         /\ table_op.reddit_id = p
         /\ post_table[p].score < min_score
         /\ Enriched(post_table[p])
         /\ post_table[p].twitter_sent

====
